---- MODULE Spec2Model ----
(***************************************************************************)
(* The document tree engine of n1ght-mcp: the path operations getValue,    *)
(* setValue and deleteValue, the listings getAllKeys and getStructure and  *)
(* the keyword search searchKeyword that the JSON, YAML, TOML and XML      *)
(* handlers apply to a parsed document; and the fs_read_file tool of the   *)
(* filesystem handler.                                                     *)
(*                                                                         *)
(* A JavaScript string is a sequence of one-character strings, so that     *)
(* split, includes, toLowerCase and the path templates are computed and    *)
(* not assumed. A JavaScript value is a record tagged by its kind.         *)
(***************************************************************************)
EXTENDS Integers, Sequences, FiniteSets, TLC

\* ------------------------------------------------------------------ strings

Digits == <<"0", "1", "2", "3", "4", "5", "6", "7", "8", "9">>

IsDigit(c) == \E i \in DOMAIN Digits : Digits[i] = c

DigitVal(c) == (CHOOSE i \in DOMAIN Digits : Digits[i] = c) - 1

RECURSIVE NumToStr(_)
\* String(n) of a non-negative integer
NumToStr(n) ==
  IF n < Len(Digits) THEN <<Digits[n + 1]>>
  ELSE NumToStr(n \div Len(Digits)) \o <<Digits[(n % Len(Digits)) + 1]>>

RECURSIVE StrToNum(_)
\* the number a string of decimal digits denotes (the empty string is 0)
StrToNum(s) ==
  IF s = <<>> THEN 0
  ELSE StrToNum(SubSeq(s, 1, Len(s) - 1)) * Len(Digits) + DigitVal(s[Len(s)])

AllDigits(s) == \A i \in DOMAIN s : IsDigit(s[i])

\* a canonical array index: "0", "1", "12", never "01" or ""
IsArrayIndex(s) == /\ Len(s) >= 1
                   /\ AllDigits(s)
                   /\ (Len(s) = 1 \/ s[1] # "0")

Upper == <<"A", "B", "C", "D", "E", "F", "G", "H", "I", "J", "K", "L", "M",
           "N", "O", "P", "Q", "R", "S", "T", "U", "V", "W", "X", "Y", "Z">>
Lower == <<"a", "b", "c", "d", "e", "f", "g", "h", "i", "j", "k", "l", "m",
           "n", "o", "p", "q", "r", "s", "t", "u", "v", "w", "x", "y", "z">>

\* String.prototype.toLowerCase, character by character
LowerChar(c) ==
  IF \E i \in DOMAIN Upper : Upper[i] = c
  THEN Lower[CHOOSE i \in DOMAIN Upper : Upper[i] = c]
  ELSE c

toLowerCase(s) == [i \in DOMAIN s |-> LowerChar(s[i])]

\* String.prototype.includes
includes(text, term) ==
  \E i \in 0..(Len(text) - Len(term)) :
     \A j \in 1..Len(term) : text[i + j] = term[j]

\* String.prototype.startsWith
startsWith(text, term) ==
  /\ Len(term) <= Len(text)
  /\ \A j \in 1..Len(term) : text[j] = term[j]

RECURSIVE split(_)
\* String.prototype.split('.'): always at least one segment
split(path) ==
  IF \A i \in DOMAIN path : path[i] # "."
  THEN <<path>>
  ELSE LET d == CHOOSE i \in DOMAIN path :
                   /\ path[i] = "."
                   /\ \A j \in 1..(i - 1) : path[j] # "."
       IN <<SubSeq(path, 1, d - 1)>> \o split(SubSeq(path, d + 1, Len(path)))

RECURSIVE join(_, _)
\* Array.prototype.join(sep)
join(segs, sep) ==
  IF Len(segs) = 0 THEN <<>>
  ELSE IF Len(segs) = 1 THEN segs[1]
  ELSE segs[1] \o sep \o join(Tail(segs), sep)

\* ------------------------------------------------------------------- values

Null == [k |-> "null"]
Undefined == [k |-> "undefined"]
Hole == [k |-> "hole"]
Fn == [k |-> "function"]
Bool(b) == [k |-> "boolean", v |-> b]
Num(n) == [k |-> "number", v |-> n]
Str(s) == [k |-> "string", v |-> s]
\* an Array: its elements (a Hole where an index is not a property) and its
\* own properties that are not indices
Arr(es) == [k |-> "array", v |-> es, p |-> <<>>]
\* an Object: its entries in property enumeration order
Obj(es) == [k |-> "object", v |-> es]
E(key, val) == [key |-> key, val |-> val]
EmptyObj == Obj(<<>>)

\* typeof
typeof(x) ==
  CASE x.k \in {"null", "array", "object"} -> "object"
    [] x.k = "hole" -> "undefined"
    [] OTHER -> x.k

\* ToBoolean, as `!current` and `current &&` apply it
Truthy(x) ==
  CASE x.k \in {"null", "undefined", "hole"} -> FALSE
    [] x.k = "boolean" -> x.v
    [] x.k = "number" -> x.v > 0
    [] x.k = "string" -> x.v # <<>>
    [] OTHER -> TRUE

\* the operand of `in` and the target of a property write must be an object
IsObjectRef(x) == x.k \in {"array", "object"}

kLength == <<"l", "e", "n", "g", "t", "h">>
kConstructor == <<"c", "o", "n", "s", "t", "r", "u", "c", "t", "o", "r">>

\* the properties every object inherits, as `key in current` sees them:
\* Object.prototype.constructor stands for them
ProtoKeys == {kConstructor}

EntryIndex(es, key) ==
  IF \E i \in DOMAIN es : es[i].key = key
  THEN CHOOSE i \in DOMAIN es : es[i].key = key
  ELSE 0

\* an own property
HasOwn(node, key) ==
  CASE node.k = "object" -> EntryIndex(node.v, key) # 0
    [] node.k = "array" ->
         \/ /\ IsArrayIndex(key)
            /\ StrToNum(key) < Len(node.v)
            /\ node.v[StrToNum(key) + 1] # Hole
         \/ key = kLength
         \/ EntryIndex(node.p, key) # 0
    [] OTHER -> FALSE

\* In as an own-key test on plain objects only
InOwnMapping(key, node) == node.k = "object" /\ EntryIndex(node.v, key) # 0

\* `key in node` for an object or an array
In(key, node) == HasOwn(node, key) \/ key \in ProtoKeys

\* node[key]
GetProp(node, key) ==
  CASE node.k = "object" /\ EntryIndex(node.v, key) # 0 ->
         node.v[EntryIndex(node.v, key)].val
    [] node.k = "array" /\ IsArrayIndex(key) ->
         IF StrToNum(key) < Len(node.v) /\ node.v[StrToNum(key) + 1] # Hole
         THEN node.v[StrToNum(key) + 1]
         ELSE Undefined
    [] node.k = "array" /\ key = kLength -> Num(Len(node.v))
    [] node.k = "array" /\ EntryIndex(node.p, key) # 0 ->
         node.p[EntryIndex(node.p, key)].val
    [] OTHER -> IF IsObjectRef(node) /\ key \in ProtoKeys THEN Fn ELSE Undefined

\* String(value)
RECURSIVE ToStr(_)
ToStr(x) ==
  CASE x.k = "null" -> <<"n", "u", "l", "l">>
    [] x.k \in {"undefined", "hole"} -> <<"u", "n", "d", "e", "f", "i", "n", "e", "d">>
    [] x.k = "boolean" -> IF x.v THEN <<"t", "r", "u", "e">> ELSE <<"f", "a", "l", "s", "e">>
    [] x.k = "number" -> NumToStr(x.v)
    [] x.k = "string" -> x.v
    [] x.k = "array" ->
         \* Array.prototype.toString is join(","); null, undefined and holes
         \* give the empty string
         join([i \in DOMAIN x.v |->
                 IF x.v[i].k \in {"null", "undefined", "hole"} THEN <<>>
                 ELSE ToStr(x.v[i])], <<",">>)
    [] x.k = "object" ->
         <<"[", "o", "b", "j", "e", "c", "t", " ", "O", "b", "j", "e", "c", "t", "]">>
    [] OTHER -> <<"f", "u", "n", "c", "t", "i", "o", "n">>

\* ToNumber of a string of the model: -1 stands for NaN
StrToNumber(s) == IF AllDigits(s) THEN StrToNum(s) ELSE -1

\* ToNumber(value), as the write of an array's length applies it
ToNumber(x) ==
  CASE x.k = "number" -> x.v
    [] x.k = "null" -> 0
    [] x.k = "boolean" -> IF x.v THEN 1 ELSE 0
    [] x.k = "string" -> StrToNumber(x.v)
    [] x.k = "array" -> StrToNumber(ToStr(x))
    [] OTHER -> -1

Holes(n) == [i \in 1..n |-> Hole]

\* what a call that threw returns to the tool
Threw == [k |-> "threw"]

Throw(node) == [ok |-> FALSE, node |-> node]
Done(node) == [ok |-> TRUE, node |-> node]

\* a new property of an object: integer keys enumerate first, in ascending
\* order, then the other keys in insertion order
InsertEntry(es, key, val) ==
  IF IsArrayIndex(key)
  THEN LET n == Cardinality({i \in DOMAIN es :
                    IsArrayIndex(es[i].key) /\ StrToNum(es[i].key) < StrToNum(key)})
       IN SubSeq(es, 1, n) \o <<E(key, val)>> \o SubSeq(es, n + 1, Len(es))
  ELSE Append(es, E(key, val))

PutEntry(es, key, val) ==
  IF EntryIndex(es, key) # 0
  THEN [es EXCEPT ![EntryIndex(es, key)].val = val]
  ELSE InsertEntry(es, key, val)

\* node[key] = val in strict mode (class bodies are strict): the node after
\* the write, or the exception
PutProp(node, key, val) ==
  CASE node.k = "object" -> Done([node EXCEPT !.v = PutEntry(node.v, key, val)])
    [] node.k = "array" /\ IsArrayIndex(key) ->
         LET i == StrToNum(key)
         IN IF i < Len(node.v)
            THEN Done([node EXCEPT !.v[i + 1] = val])
            ELSE Done([node EXCEPT !.v = node.v \o Holes(i - Len(node.v)) \o <<val>>])
    [] node.k = "array" /\ ~IsArrayIndex(key) /\ key = kLength ->
         \* ArraySetLength: RangeError unless the value converts to a length
         LET n == ToNumber(val)
         IN IF n < 0 THEN Throw(node)
            ELSE IF n <= Len(node.v)
            THEN Done([node EXCEPT !.v = SubSeq(node.v, 1, n)])
            ELSE Done([node EXCEPT !.v = node.v \o Holes(n - Len(node.v))])
    [] node.k = "array" /\ ~IsArrayIndex(key) /\ key # kLength ->
         Done([node EXCEPT !.p = PutEntry(node.p, key, val)])
    [] OTHER -> Throw(node)   \* TypeError: null, undefined or a primitive

RemoveEntry(es, key) ==
  IF EntryIndex(es, key) # 0
  THEN SubSeq(es, 1, EntryIndex(es, key) - 1)
         \o SubSeq(es, EntryIndex(es, key) + 1, Len(es))
  ELSE es

\* DeleteProp with an array element removed by splice instead of delete
DeletePropSplice(node, key) ==
  CASE node.k = "object" -> Done([node EXCEPT !.v = RemoveEntry(node.v, key)])
    [] node.k = "array" /\ IsArrayIndex(key) ->
         IF StrToNum(key) < Len(node.v)
         THEN Done([node EXCEPT !.v = SubSeq(node.v, 1, StrToNum(key))
                                        \o SubSeq(node.v, StrToNum(key) + 2, Len(node.v))])
         ELSE Done(node)
    [] node.k = "array" /\ ~IsArrayIndex(key) /\ key = kLength -> Throw(node)
    [] node.k = "array" /\ ~IsArrayIndex(key) /\ key # kLength ->
         Done([node EXCEPT !.p = RemoveEntry(node.p, key)])
    [] node.k \in {"null", "undefined"} -> Throw(node)
    [] OTHER -> Done(node)

\* delete node[key] in strict mode
DeleteProp(node, key) ==
  CASE node.k = "object" -> Done([node EXCEPT !.v = RemoveEntry(node.v, key)])
    [] node.k = "array" /\ IsArrayIndex(key) ->
         IF StrToNum(key) < Len(node.v)
         THEN Done([node EXCEPT !.v[StrToNum(key) + 1] = Hole])
         ELSE Done(node)
    [] node.k = "array" /\ ~IsArrayIndex(key) /\ key = kLength ->
         Throw(node)          \* TypeError: length is not configurable
    [] node.k = "array" /\ ~IsArrayIndex(key) /\ key # kLength ->
         Done([node EXCEPT !.p = RemoveEntry(node.p, key)])
    [] node.k \in {"null", "undefined"} -> Throw(node)
    [] node.k = "string" /\ (key = kLength
                               \/ (IsArrayIndex(key) /\ StrToNum(key) < Len(node.v))) ->
         Throw(node)
    [] OTHER -> Done(node)

\* ------------------------------------------------------- path operations

\* getValue of YAMLHandler, TOMLHandler and XMLHandler, and of JSONHandler
\* for dot notation (JSONHandler hands a path that starts with '$' to the
\* jsonpath-plus library, which is not part of this model)
RECURSIVE getWalk(_, _, _)
getWalk(current, keys, i) ==
  IF i > Len(keys) THEN current
  ELSE IF Truthy(current) /\ typeof(current) = "object" /\ In(keys[i], current)
  THEN getWalk(GetProp(current, keys[i]), keys, i + 1)
  ELSE Undefined

\* getValue with the empty path answered by the whole tree
getValueEmptyIsRoot(obj, path) ==
  IF path = <<>> THEN obj ELSE getWalk(obj, split(path), 1)

getValue(obj, path) == getWalk(obj, split(path), 1)

\* the loop of setValue from segment i on, and the final write; the node is
\* rebuilt along the path as the in-place writes leave it, also when a later
\* step throws
RECURSIVE setWalk(_, _, _, _)
setWalk(current, keys, i, value) ==
  IF i = Len(keys) THEN PutProp(current, keys[i], value)
  ELSE IF ~IsObjectRef(current) THEN Throw(current)   \* `key in current` throws
  ELSE LET key == keys[i]
           r1 == IF ~In(key, current) \/ typeof(GetProp(current, key)) # "object"
                 THEN PutProp(current, key, EmptyObj)
                 ELSE Done(current)
       IN IF ~r1.ok THEN r1
          ELSE LET r2 == setWalk(GetProp(r1.node, key), keys, i + 1, value)
                   back == PutProp(r1.node, key, r2.node)
               IN [ok |-> r2.ok, node |-> back.node]

\* setValue of YAMLHandler, TOMLHandler and XMLHandler
setValue(obj, path, value) == setWalk(obj, split(path), 1, value)

\* setValueJSON with the '$' test made after the walk
setValueJSONLateCheck(obj, path, value) ==
  LET r == setWalk(obj, split(path), 1, value)
  IN IF startsWith(path, <<"$">>) THEN Throw(r.node) ELSE r

\* setValue of JSONHandler: a path that starts with '$' is refused
setValueJSON(obj, path, value) ==
  IF startsWith(path, <<"$">>) THEN Throw(obj)
  ELSE setWalk(obj, split(path), 1, value)

RECURSIVE deleteWalk(_, _, _)
deleteWalk(current, keys, i) ==
  IF i = Len(keys) THEN DeleteProp(current, keys[i])
  ELSE IF ~IsObjectRef(current) THEN Throw(current)   \* `key in current` throws
  ELSE LET key == keys[i]
       IN IF ~In(key, current) \/ typeof(GetProp(current, key)) # "object"
          THEN Done(current)                            \* Path doesn't exist
          ELSE LET r2 == deleteWalk(GetProp(current, key), keys, i + 1)
                   back == PutProp(current, key, r2.node)
               IN [ok |-> r2.ok, node |-> back.node]

deleteValue(obj, path) == deleteWalk(obj, split(path), 1)

\* ------------------------------------------------------------------- search

PreviewLimit == 100

\* getPreview with strings of any length returned whole
getPreviewWhole(handler, value) ==
  CASE value.k = "string" -> value
    [] value.k = "array" ->
         Str(<<"A", "r", "r", "a", "y", "(">> \o NumToStr(Len(value.v)) \o <<")">>)
    [] value.k = "object" ->
         Str((IF handler = "toml" THEN <<"S", "e", "c", "t", "i", "o", "n", "(">>
              ELSE <<"O", "b", "j", "e", "c", "t", "(">>)
             \o NumToStr(Len(value.v)) \o <<" ", "k", "e", "y", "s", ")">>)
    [] OTHER -> Str(ToStr(value))

\* getPreview: 'Object(n keys)' in the JSON, YAML and XML handlers,
\* 'Section(n keys)' in the TOML handler
getPreview(handler, value) ==
  CASE value.k = "string" ->
         IF Len(value.v) > PreviewLimit
         THEN Str(SubSeq(value.v, 1, PreviewLimit) \o <<".", ".", ".">>)
         ELSE value
    [] value.k = "array" ->
         Str(<<"A", "r", "r", "a", "y", "(">> \o NumToStr(Len(value.v)) \o <<")">>)
    [] value.k = "object" ->
         Str((IF handler = "toml" THEN <<"S", "e", "c", "t", "i", "o", "n", "(">>
              ELSE <<"O", "b", "j", "e", "c", "t", "(">>)
             \o NumToStr(Len(value.v)) \o <<" ", "k", "e", "y", "s", ")">>)
    [] OTHER -> Str(ToStr(value))

\* new RegExp(keyword, flags) throws a SyntaxError on a pattern it cannot
\* parse; an unterminated group stands for those. The patterns of the model
\* are otherwise literal characters.
ValidRegExp(keyword) == \A i \in DOMAIN keyword : keyword[i] # "("

\* searchPattern: the keyword itself, or a RegExp with the g flag
SearchPattern(keyword, caseSensitive, regex) ==
  IF regex THEN [k |-> "regexp", source |-> keyword, ignoreCase |-> ~caseSensitive]
  ELSE Str(keyword)

\* RegExp.prototype.test of a global pattern: the match is looked for from
\* lastIndex on, and lastIndex is left after the match, or at 0 on a failure
RegExpTest(term, text, lastIndex) ==
  LET src == IF term.ignoreCase THEN toLowerCase(term.source) ELSE term.source
      txt == IF term.ignoreCase THEN toLowerCase(text) ELSE text
      at == {i \in lastIndex..(Len(txt) - Len(src)) :
                \A j \in 1..Len(src) : txt[i + j] = src[j]}
  IN IF lastIndex > Len(txt) \/ at = {}
     THEN [hit |-> FALSE, lastIndex |-> 0]
     ELSE LET i == CHOOSE i \in at : \A i2 \in at : i <= i2
          IN [hit |-> TRUE, lastIndex |-> i + Len(src)]

\* matches(text, term): whether it matches, and the pattern's lastIndex after
matches(text, term, caseSensitive, lastIndex) ==
  IF term.k = "string"
  THEN [hit |-> IF caseSensitive THEN includes(text, term.v)
                ELSE includes(toLowerCase(text), toLowerCase(term.v)),
        lastIndex |-> lastIndex]
  ELSE RegExpTest(term, text, lastIndex)

\* `${path}.${key}` or key
KeyPath(path, key) == IF path # <<>> THEN path \o <<".">> \o key ELSE key

\* `${path}[${i}]` or `[${i}]`
ItemPath(path, i) == path \o <<"[">> \o NumToStr(i) \o <<"]">>

\* the record pushed for a key whose name matches
KeyMatch(handler, path, key, value) ==
  CASE handler = "json" ->
         [type |-> "key", path |-> path, key |-> key,
          value |-> getPreview(handler, value)]
    [] handler = "yaml" ->
         [type |-> "key", path |-> path, key |-> key,
          value |-> getPreview(handler, value), matchType |-> "key"]
    [] handler = "toml" ->
         [type |-> "key", path |-> path, key |-> key,
          value |-> getPreview(handler, value),
          matchType |-> IF typeof(value) = "object" /\ value # Null
                        THEN "section" ELSE "key"]
    [] OTHER ->
         [type |-> "key", path |-> path,
          key |-> IF startsWith(key, <<"@", "_">>) THEN SubSeq(key, 3, Len(key)) ELSE key,
          value |-> getPreview(handler, value),
          matchType |-> IF startsWith(key, <<"@", "_">>)
                        THEN "attribute-name" ELSE "element-name"]

\* the record pushed for a value that matches
ValueMatch(handler, path, key, value) ==
  CASE handler = "json" ->
         [type |-> "value", path |-> path, key |-> key, value |-> value]
    [] handler \in {"yaml", "toml"} ->
         [type |-> "value", path |-> path, key |-> key, value |-> value,
          matchType |-> "value"]
    [] OTHER ->
         [type |-> "value", path |-> path,
          key |-> IF startsWith(key, <<"@", "_">>) THEN SubSeq(key, 3, Len(key)) ELSE key,
          value |-> value,
          matchType |-> IF startsWith(key, <<"@", "_">>) THEN "attribute-value"
                        ELSE IF key = <<"#", "t", "e", "x", "t">> THEN "text-content"
                        ELSE "value"]

\* the text of a value the handler tests: the JSON and XML handlers test
\* strings only, the YAML and TOML handlers test String(value)
ValueTested(handler, value) ==
  IF handler \in {"json", "xml"} THEN value.k = "string" ELSE TRUE

\* one turn of `for (const key in current)`: the key test, the value test,
\* then the recursion; acc is the results array and the pattern's lastIndex
RECURSIVE search(_, _, _, _, _)
RECURSIVE searchEntries(_, _, _, _, _, _)
RECURSIVE searchItems(_, _, _, _, _, _)

\* searchEntry with the recursion made before the tests of the entry
searchEntryChildrenFirst(handler, o, path, e, acc) ==
  LET fullPath == KeyPath(path, e.key)
      value == e.val
      acc1 == IF typeof(value) = "object" /\ value # Null
              THEN search(handler, o, value, fullPath, acc)
              ELSE acc
      mk == IF o.searchKeys
            THEN matches(e.key, o.pattern, o.caseSensitive, acc1.lastIndex)
            ELSE [hit |-> FALSE, lastIndex |-> acc1.lastIndex]
      r1 == IF mk.hit
            THEN Append(acc1.results, KeyMatch(handler, fullPath, e.key, value))
            ELSE acc1.results
      mv == IF o.searchValues /\ ValueTested(handler, value)
            THEN matches(ToStr(value), o.pattern, o.caseSensitive, mk.lastIndex)
            ELSE [hit |-> FALSE, lastIndex |-> mk.lastIndex]
      r2 == IF mv.hit
            THEN Append(r1, ValueMatch(handler, fullPath, e.key, value))
            ELSE r1
  IN [results |-> r2, lastIndex |-> mv.lastIndex]

searchEntry(handler, o, path, e, acc) ==
  LET fullPath == KeyPath(path, e.key)
      value == e.val
      mk == IF o.searchKeys
            THEN matches(e.key, o.pattern, o.caseSensitive, acc.lastIndex)
            ELSE [hit |-> FALSE, lastIndex |-> acc.lastIndex]
      r1 == IF mk.hit
            THEN Append(acc.results, KeyMatch(handler, fullPath, e.key, value))
            ELSE acc.results
      mv == IF o.searchValues /\ ValueTested(handler, value)
            THEN matches(ToStr(value), o.pattern, o.caseSensitive, mk.lastIndex)
            ELSE [hit |-> FALSE, lastIndex |-> mk.lastIndex]
      r2 == IF mv.hit
            THEN Append(r1, ValueMatch(handler, fullPath, e.key, value))
            ELSE r1
      acc2 == [results |-> r2, lastIndex |-> mv.lastIndex]
  IN IF typeof(value) = "object" /\ value # Null
     THEN search(handler, o, value, fullPath, acc2)
     ELSE acc2

searchEntries(handler, o, es, path, i, acc) ==
  IF i > Len(es) THEN acc
  ELSE searchEntries(handler, o, es, path, i + 1,
                     searchEntry(handler, o, path, es[i], acc))

searchItems(handler, o, items, path, i, acc) ==
  IF i > Len(items) THEN acc
  ELSE searchItems(handler, o, items, path, i + 1,
                   search(handler, o, items[i], ItemPath(path, i - 1), acc))

search(handler, o, current, path, acc) ==
  IF Len(acc.results) >= o.maxResults THEN acc
  ELSE IF ~Truthy(current) \/ typeof(current) # "object" THEN acc
  ELSE IF current.k = "array" THEN searchItems(handler, o, current.v, path, 1, acc)
  ELSE searchEntries(handler, o, current.v, path, 1, acc)

\* the array of matches a search returns
Results(rs) == [k |-> "results", v |-> rs]

\* searchKeyword with the error of an invalid pattern caught and dropped
searchKeywordQuiet(handler, obj, keyword, options) ==
  IF options.regex /\ ~ValidRegExp(keyword) THEN Results(<<>>)
  ELSE Results(search(handler,
              [searchKeys |-> options.searchKeys,
               searchValues |-> options.searchValues,
               caseSensitive |-> options.caseSensitive,
               maxResults |-> options.maxResults,
               pattern |-> SearchPattern(keyword, options.caseSensitive, options.regex)],
              obj, <<>>, [results |-> <<>>, lastIndex |-> 0]).results)

\* searchKeyword: the results, or the error of an invalid pattern
searchKeyword(handler, obj, keyword, options) ==
  IF options.regex /\ ~ValidRegExp(keyword) THEN Threw
  ELSE Results(search(handler,
              [searchKeys |-> options.searchKeys,
               searchValues |-> options.searchValues,
               caseSensitive |-> options.caseSensitive,
               maxResults |-> options.maxResults,
               pattern |-> SearchPattern(keyword, options.caseSensitive, options.regex)],
              obj, <<>>, [results |-> <<>>, lastIndex |-> 0]).results)

\* the lastIndex of an earlier call's pattern carried into the next call
PatternKept(left) == left

\* the lastIndex of the pattern a call starts with: searchPattern is made by
\* `new RegExp` inside the call, so whatever an earlier call's pattern was
\* left with is gone
PatternStart(left) == 0

\* the walk of searchKeyword with the pattern's lastIndex at its start: the
\* results, and the lastIndex the pattern is left with
searchFrom(handler, obj, keyword, options, lastIndex) ==
  search(handler,
         [searchKeys |-> options.searchKeys,
          searchValues |-> options.searchValues,
          caseSensitive |-> options.caseSensitive,
          maxResults |-> options.maxResults,
          pattern |-> SearchPattern(keyword, options.caseSensitive, options.regex)],
         obj, <<>>, [results |-> <<>>, lastIndex |-> lastIndex])

\* searchKeyword called after an earlier searchKeyword call of the handler
searchKeywordAfter(handler, obj, keyword, options, left) ==
  IF options.regex /\ ~ValidRegExp(keyword) THEN Threw
  ELSE Results(searchFrom(handler, obj, keyword, options, PatternStart(left)).results)

\* ------------------------------------------------------ keys and structure

Min(a, b) == IF a <= b THEN a ELSE b

\* the string `typeof data` evaluates to
TypeofStr(x) ==
  CASE typeof(x) = "object" -> <<"o", "b", "j", "e", "c", "t">>
    [] typeof(x) = "undefined" -> <<"u", "n", "d", "e", "f", "i", "n", "e", "d">>
    [] typeof(x) = "boolean" -> <<"b", "o", "o", "l", "e", "a", "n">>
    [] typeof(x) = "number" -> <<"n", "u", "m", "b", "e", "r">>
    [] typeof(x) = "string" -> <<"s", "t", "r", "i", "n", "g">>
    [] OTHER -> <<"f", "u", "n", "c", "t", "i", "o", "n">>

\* the elements getAllKeys lists of an array, the elements getStructure
\* samples of an array and the keys it lists of an object
KeysArrayCap == 10
SampleSize == 3
KeysShown == 20

DefaultKeysDepth == 5
DefaultStructureDepth == 3

\* `[...${obj.length - 10} more items]` after the prefix
MoreItems(prefix, n) ==
  prefix \o <<"[", ".", ".", ".">> \o NumToStr(n - KeysArrayCap)
         \o <<" ", "m", "o", "r", "e", " ", "i", "t", "e", "m", "s", "]">>

RECURSIVE getAllKeys(_, _, _, _)
RECURSIVE keysOfItems(_, _, _, _, _)
RECURSIVE keysOfEntries(_, _, _, _, _)

\* keysOfItems without the cap: every element is listed
keysOfItemsAll(obj, prefix, maxDepth, currentDepth, i) ==
  IF i >= Len(obj.v) THEN <<>>
  ELSE LET itemPrefix == ItemPath(prefix, i)
           item == GetProp(obj, NumToStr(i))
       IN <<itemPrefix>>
            \o (IF typeof(item) = "object" /\ item # Null
                THEN getAllKeys(item, itemPrefix, maxDepth, currentDepth + 1)
                ELSE <<>>)
            \o keysOfItems(obj, prefix, maxDepth, currentDepth, i + 1)

\* the turns i.. of `for (let i = 0; i < Math.min(obj.length, 10); i++)`
keysOfItems(obj, prefix, maxDepth, currentDepth, i) ==
  IF i >= Min(Len(obj.v), KeysArrayCap) THEN <<>>
  ELSE LET itemPrefix == ItemPath(prefix, i)
           item == GetProp(obj, NumToStr(i))
       IN <<itemPrefix>>
            \o (IF typeof(item) = "object" /\ item # Null
                THEN getAllKeys(item, itemPrefix, maxDepth, currentDepth + 1)
                ELSE <<>>)
            \o keysOfItems(obj, prefix, maxDepth, currentDepth, i + 1)

\* the turns i.. of `for (const key in obj)`
keysOfEntries(obj, prefix, maxDepth, currentDepth, i) ==
  IF i > Len(obj.v) THEN <<>>
  ELSE LET fullKey == KeyPath(prefix, obj.v[i].key)
           value == obj.v[i].val
       IN <<fullKey>>
            \o (IF typeof(value) = "object" /\ value # Null
                THEN getAllKeys(value, fullKey, maxDepth, currentDepth + 1)
                ELSE <<>>)
            \o keysOfEntries(obj, prefix, maxDepth, currentDepth, i + 1)

\* getAllKeys with the depth limit applied one level later
getAllKeysDeeper(obj, prefix, maxDepth, currentDepth) ==
  IF currentDepth > maxDepth \/ ~Truthy(obj) \/ typeof(obj) # "object" THEN <<>>
  ELSE IF obj.k = "array"
  THEN keysOfItems(obj, prefix, maxDepth, currentDepth, 0)
         \o (IF Len(obj.v) > KeysArrayCap
             THEN <<MoreItems(prefix, Len(obj.v))>>
             ELSE <<>>)
  ELSE keysOfEntries(obj, prefix, maxDepth, currentDepth, 1)

\* getAllKeys: the array of path strings
getAllKeys(obj, prefix, maxDepth, currentDepth) ==
  IF currentDepth >= maxDepth \/ ~Truthy(obj) \/ typeof(obj) # "object" THEN <<>>
  ELSE IF obj.k = "array"
  THEN keysOfItems(obj, prefix, maxDepth, currentDepth, 0)
         \o (IF Len(obj.v) > KeysArrayCap
             THEN <<MoreItems(prefix, Len(obj.v))>>
             ELSE <<>>)
  ELSE keysOfEntries(obj, prefix, maxDepth, currentDepth, 1)

\* what getStructure returns at the depth limit
\* `[Array(n)]`, `{Object with n keys}` or typeof data
DepthLimitText(data) ==
  IF typeof(data) = "object" /\ data # Null
  THEN IF data.k = "array"
       THEN Str(<<"[", "A", "r", "r", "a", "y", "(">> \o NumToStr(Len(data.v))
                \o <<")", "]">>)
       ELSE Str(<<"{", "O", "b", "j", "e", "c", "t", " ", "w", "i", "t", "h", " ">>
                \o NumToStr(Len(data.v)) \o <<" ", "k", "e", "y", "s", "}">>)
  ELSE Str(TypeofStr(data))

\* `Array(n) - Sample:` or `Array(n):`
SampleLabel(n) ==
  Str(<<"A", "r", "r", "a", "y", "(">> \o NumToStr(n) \o <<")">>
      \o (IF n > SampleSize
          THEN <<" ", "-", " ", "S", "a", "m", "p", "l", "e", ":">>
          ELSE <<":">>))

kEllipsis == <<".", ".", ".">>

\* `${keys.length - 20} more keys`
MoreKeys(n) ==
  Str(NumToStr(n - KeysShown) \o <<" ", "m", "o", "r", "e", " ", "k", "e", "y", "s">>)

RECURSIVE getStructureDeeper(_, _, _)
\* getStructure with the depth limit applied one level later
getStructureDeeper(data, maxDepth, currentDepth) ==
  IF currentDepth > maxDepth THEN DepthLimitText(data)
  ELSE IF data \in {Null, Undefined} THEN data
  ELSE IF typeof(data) # "object" THEN Str(TypeofStr(data))
  ELSE IF data.k = "array"
  THEN IF Len(data.v) = 0 THEN Arr(<<>>)
       ELSE Arr(<<SampleLabel(Len(data.v)),
                  Arr([i \in 1..Min(Len(data.v), SampleSize) |->
                         getStructureDeeper(data.v[i], maxDepth, currentDepth + 1)])>>)
  ELSE LET shown == [i \in 1..Min(Len(data.v), KeysShown) |->
                       E(data.v[i].key,
                         getStructureDeeper(data.v[i].val, maxDepth, currentDepth + 1))]
       IN Obj(IF Len(data.v) > KeysShown
              THEN PutEntry(shown, kEllipsis, MoreKeys(Len(data.v)))
              ELSE shown)

RECURSIVE getStructure(_, _, _)
\* getStructure: the structure of data down to maxDepth
getStructure(data, maxDepth, currentDepth) ==
  IF currentDepth >= maxDepth THEN DepthLimitText(data)
  ELSE IF data \in {Null, Undefined} THEN data
  ELSE IF typeof(data) # "object" THEN Str(TypeofStr(data))
  ELSE IF data.k = "array"
  THEN IF Len(data.v) = 0 THEN Arr(<<>>)
       ELSE Arr(<<SampleLabel(Len(data.v)),
                  Arr([i \in 1..Min(Len(data.v), SampleSize) |->
                         getStructure(data.v[i], maxDepth, currentDepth + 1)])>>)
  ELSE LET shown == [i \in 1..Min(Len(data.v), KeysShown) |->
                       E(data.v[i].key,
                         getStructure(data.v[i].val, maxDepth, currentDepth + 1))]
       IN Obj(IF Len(data.v) > KeysShown
              THEN PutEntry(shown, kEllipsis, MoreKeys(Len(data.v)))
              ELSE shown)

\* ---------------------------------------------------------------- documents

kA == <<"a">>
kB == <<"b">>
kC == <<"c">>
k0 == <<"0">>
sRed == <<"r", "e", "d">>

MaxPathLen == 3

\* the values a document holds under a key
Inner0 == {Null, Num(1), Str(sRed), EmptyObj, Arr(<<Num(1), Num(2), Num(3)>>)}
Inner1 == Inner0 \cup {Obj(<<E(kB, x)>>) : x \in Inner0}
                 \cup {Arr(<<x, Num(1)>>) : x \in {Null, EmptyObj, Obj(<<E(kB, Null)>>)}}
Inner2 == Inner1 \cup {Obj(<<E(kB, x)>>) : x \in Inner1 \ Inner0}

\* the parsed documents a handler is given: objects, and the other roots a
\* JSON or YAML file can hold
PathDocs ==
  {Obj(<<E(kA, x)>>) : x \in Inner2}
    \cup {Obj(<<E(kA, x), E(kB, Num(1))>>) : x \in Inner0}
    \cup {Obj(<<E(kB, Num(1)), E(kA, x)>>) : x \in Inner0}
    \cup {EmptyObj, Null, Num(1), Arr(<<Obj(<<E(kA, Num(1))>>), Num(2)>>),
          Obj(<<E(<<>>, Num(1)), E(kA, Obj(<<E(<<>>, Null)>>))>>)}

\* path segments: keys, an array index, and the names `in` finds on arrays
\* and on every object
Segs == {kA, kB, kC, k0, kLength, kConstructor}

RECURSIVE SeqsUpTo(_, _)
SeqsUpTo(S, n) ==
  IF n = 0 THEN {<<>>}
  ELSE LET shorter == SeqsUpTo(S, n - 1)
       IN shorter \cup {Append(q, x) : q \in shorter, x \in S}

\* the path strings of a request: dotted segments, the empty string, a path
\* with an empty segment, and a JSONPath-style path
Paths == {join(q, <<".">>) : q \in SeqsUpTo(Segs, MaxPathLen) \ {<<>>}}
           \cup {<<>>, <<"a", ".", ".", "b">>, <<"$", ".", "a">>}

\* the values a request writes
SetValues == {Num(5), Str(sRed), Null}

\* -------------------------------------------------------------- the machine

VARIABLES
  doc,    \* the parsed document the handler works on, mutated in place
  pre,    \* the document as the call received it
  call,   \* the call made: its operation and arguments
  ret     \* what the call returned, or that it threw

vars == <<doc, pre, call, ret>>

NoCall == [op |-> "none"]

\* one request is served per process: a document is loaded, one call made
Idle == call = NoCall

\* the yaml_get, toml_get and xml_get tools, and json_get with dot notation
GetValue(path) ==
  /\ Idle
  /\ call' = [op |-> "getValue", path |-> path]
  /\ ret' = getValue(doc, path)
  /\ UNCHANGED <<doc, pre>>

\* the json_set tool (JSONHandler) and the yaml_set, toml_set, xml_set tools
SetValue(handler, path, value) ==
  /\ Idle
  /\ LET r == IF handler = "json" THEN setValueJSON(doc, path, value)
              ELSE setValue(doc, path, value)
     IN /\ doc' = r.node
        /\ ret' = IF r.ok THEN r.node ELSE Threw
  /\ call' = [op |-> "setValue", handler |-> handler, path |-> path, value |-> value]
  /\ UNCHANGED pre

\* the yaml_delete, toml_delete and json_delete tools
DeleteValue(path) ==
  /\ Idle
  /\ LET r == deleteValue(doc, path)
     IN /\ doc' = r.node
        /\ ret' = IF r.ok THEN r.node ELSE Threw
  /\ call' = [op |-> "deleteValue", path |-> path]
  /\ UNCHANGED pre

PathInit ==
  /\ doc \in PathDocs
  /\ pre = doc
  /\ call = NoCall
  /\ ret = Undefined

PathNext ==
  \/ Idle /\ \E path \in Paths : GetValue(path)
  \/ Idle /\ \E handler \in {"json", "yaml"}, path \in Paths, value \in SetValues :
               SetValue(handler, path, value)
  \/ Idle /\ \E path \in Paths : DeleteValue(path)

PathSpec == PathInit /\ [][PathNext]_vars

\* ------------------------------------------------------- the search machine

sName == <<"n", "a", "m", "e">>
sTags == <<"t", "a", "g", "s">>
sWidget == <<"w", "i", "d", "g", "e", "t">>
sBlue == <<"b", "l", "u", "e">>
sRedder == <<"r", "e", "d", "d", "e", "r">>
sRED == <<"R", "E", "D">>

\* {"name": "widget", "tags": ["red", "blue"]}
WidgetDoc == Obj(<<E(sName, Str(sWidget)), E(sTags, Arr(<<Str(sRed), Str(sBlue)>>))>>)

SearchDocs ==
  {WidgetDoc,
   Obj(<<E(sRed, Str(sRed)), E(sRedder, Obj(<<E(kA, Str(sRED))>>))>>),
   Obj(<<E(kA, Num(1)), E(kB, Bool(TRUE)), E(kC, Null),
         E(sTags, Arr(<<Num(1), Str(sRed), Null>>))>>),
   Obj(<<E(sTags, Arr(<<Obj(<<E(sRed, Str(sRED))>>), Arr(<<Str(sRed)>>)>>)),
         E(kB, Str(sRedder))>>),
   Obj(<<E(kA, Obj(<<E(kB, Obj(<<E(sRed, Str(sBlue))>>))>>)), E(sRED, Num(5))>>),
   Arr(<<Str(sRed), Obj(<<E(sRed, Num(1))>>)>>),
   EmptyObj, Null}

Keywords == {sRed, sRED, <<"1">>, <<>>, <<"(", "r">>}

MaxCap == 2
DefaultMaxResults == 100

SearchOptions ==
  [searchKeys : BOOLEAN, searchValues : BOOLEAN, caseSensitive : BOOLEAN,
   regex : BOOLEAN, maxResults : (0..MaxCap) \cup {DefaultMaxResults}]

Handlers == {"json", "yaml", "toml", "xml"}

\* the json_search, yaml_search, toml_search and xml_search tools
SearchKeyword(handler, keyword, options) ==
  /\ Idle
  /\ call' = [op |-> "searchKeyword", handler |-> handler,
              keyword |-> keyword, options |-> options]
  /\ ret' = searchKeyword(handler, doc, keyword, options)
  /\ UNCHANGED <<doc, pre>>

SearchInit ==
  /\ doc \in SearchDocs
  /\ pre = doc
  /\ call = NoCall
  /\ ret = Undefined

SearchNext ==
  Idle /\ \E handler \in Handlers, keyword \in Keywords, options \in SearchOptions :
             SearchKeyword(handler, keyword, options)

SearchSpec == SearchInit /\ [][SearchNext]_vars

\* --------------------------------------------- the keys and structure machine


MaxDepth == 4

\* [1, 2, ..., n]
NumArr(n) == Arr([i \in 1..n |-> Num(i)])

\* {"k1": 1, ..., "kn": n}
WideObj(n) == Obj([i \in 1..n |-> E(<<"k">> \o NumToStr(i), Num(i))])

\* {"a": {"a": ... {"a": leaf}}} with n objects
RECURSIVE Chain(_, _)
Chain(n, leaf) == IF n = 0 THEN leaf ELSE Obj(<<E(kA, Chain(n - 1, leaf))>>)

TreeDocs ==
  {Obj(<<E(<<"x">>, Obj(<<E(<<"y">>, Num(1))>>))>>),
   Chain(MaxDepth + 1, Str(sRed)),
   Chain(2, NumArr(2)),
   Obj(<<E(kA, NumArr(KeysArrayCap + 1)), E(kB, Num(1))>>),
   Obj(<<E(kA, Obj(<<E(kB, NumArr(KeysArrayCap + 2))>>)), E(kC, Null)>>),
   NumArr(KeysArrayCap),
   NumArr(KeysArrayCap + 2),
   Arr(<<Obj(<<E(kA, Num(1))>>), Arr(<<Str(sRed), Obj(<<E(kB, Null)>>)>>), Null,
         Bool(TRUE), Num(5)>>),
   Obj(<<E(kA, Arr(<<Obj(<<E(kB, Obj(<<E(kC, Num(1))>>))>>), Num(2)>>)),
         E(kB, Obj(<<E(kA, Str(sRed)), E(kC, EmptyObj)>>)),
         E(kC, Arr(<<>>))>>),
   Obj(<<E(kA, WideObj(KeysShown + 1)), E(kB, WideObj(2))>>),
   WideObj(KeysShown),
   Obj(<<E(kEllipsis, Obj(<<E(kA, Num(1))>>))>> \o WideObj(KeysShown).v),
   Obj(<<E(k0, Obj(<<E(kA, Bool(FALSE))>>)), E(kB, Str(<<>>))>>),
   EmptyObj, Arr(<<>>), Null, Num(1), Str(sRed)}

\* the json_keys, yaml_keys, toml_keys and xml_keys tools
GetAllKeys(maxDepth) ==
  /\ Idle
  /\ call' = [op |-> "getAllKeys", maxDepth |-> maxDepth]
  /\ ret' = [k |-> "keys", v |-> getAllKeys(doc, <<>>, maxDepth, 0)]
  /\ UNCHANGED <<doc, pre>>

\* the json_structure, yaml_structure, toml_structure and xml_structure tools
GetStructure(maxDepth) ==
  /\ Idle
  /\ call' = [op |-> "getStructure", maxDepth |-> maxDepth]
  /\ ret' = getStructure(doc, maxDepth, 0)
  /\ UNCHANGED <<doc, pre>>

TreeInit ==
  /\ doc \in TreeDocs
  /\ pre = doc
  /\ call = NoCall
  /\ ret = Undefined

TreeNext ==
  \/ Idle /\ \E maxDepth \in (0..MaxDepth) \cup {DefaultKeysDepth} : GetAllKeys(maxDepth)
  \/ Idle /\ \E maxDepth \in (0..MaxDepth) \cup {DefaultStructureDepth} :
               GetStructure(maxDepth)

TreeSpec == TreeInit /\ [][TreeNext]_vars

\* ------------------------------------------------- the read-only machine

ReadOps == {"getValue", "getAllKeys", "getStructure", "searchKeyword", "getPreview"}

\* a text of n characters that starts with "red"
TextOf(n) == [i \in 1..n |-> IF i <= Len(sRed) THEN sRed[i] ELSE "x"]

ReadDocs ==
  SearchDocs \cup {Obj(<<E(kA, Obj(<<E(kB, NumArr(3))>>)), E(kC, Null)>>),
                   NumArr(KeysArrayCap + 1), Str(sRedder), Num(1), Bool(TRUE),
                   Str(TextOf(PreviewLimit)), Str(TextOf(PreviewLimit + 1)),
                   Obj(<<E(kA, Str(TextOf(PreviewLimit + 1))),
                         E(kB, Str(TextOf(PreviewLimit)))>>)}

\* getPreview of a value, as searchKeyword and the list tools call it
GetPreview(handler) ==
  /\ Idle
  /\ call' = [op |-> "getPreview", handler |-> handler]
  /\ ret' = getPreview(handler, doc)
  /\ UNCHANGED <<doc, pre>>

\* the handler serves the same call a second time on the same document
Repeat ==
  /\ call.op \in ReadOps
  /\ ret' = [k |-> "twice",
             first |-> ret,
             second |->
               CASE call.op = "getValue" -> getValue(doc, call.path)
                 [] call.op = "getAllKeys" ->
                      [k |-> "keys", v |-> getAllKeys(doc, <<>>, call.maxDepth, 0)]
                 [] call.op = "getStructure" -> getStructure(doc, call.maxDepth, 0)
                 [] call.op = "getPreview" -> getPreview(call.handler, doc)
                 [] OTHER ->
                      searchKeywordAfter(call.handler, doc, call.keyword, call.options,
                        IF ret = Threw THEN 0
                        ELSE searchFrom(call.handler, doc, call.keyword,
                                        call.options, 0).lastIndex)]
  /\ call' = [op |-> "repeat", of |-> call]
  /\ UNCHANGED <<doc, pre>>

ReadInit ==
  /\ doc \in ReadDocs
  /\ pre = doc
  /\ call = NoCall
  /\ ret = Undefined

ReadNext ==
  \/ Idle /\ \E path \in Paths : GetValue(path)
  \/ Idle /\ \E maxDepth \in 0..MaxDepth : GetAllKeys(maxDepth)
  \/ Idle /\ \E maxDepth \in 0..MaxDepth : GetStructure(maxDepth)
  \/ Idle /\ \E handler \in Handlers, keyword \in Keywords, options \in SearchOptions :
               SearchKeyword(handler, keyword, options)
  \/ Idle /\ \E handler \in Handlers : GetPreview(handler)
  \/ Repeat

ReadSpec == ReadInit /\ [][ReadNext]_vars

\* ------------------------------------------------------ the file reader

\* Math.ceil(text.length / 3.35), the estimate when no tokenizer is loaded
EstimateTokens(length) == (length * 100 + 334) \div 335

\* countTokens of a text of the given length; tokens is what the loaded
\* tokenizer counts, 0 when none is loaded
countTokens(length, tokens) ==
  IF length = 0 THEN 0
  ELSE IF tokens > 0 THEN tokens
  ELSE EstimateTokens(length)

\* getMaxInputSize: the request's value, else the configured one, else an
\* error; 0 stands for a value that is not given
getMaxInputSize(config, userSpecified) ==
  IF userSpecified > 0 THEN [ok |-> TRUE, v |-> userSpecified]
  ELSE IF config.maxInputSize > 0 THEN [ok |-> TRUE, v |-> config.maxInputSize]
  ELSE [ok |-> FALSE, v |-> 0]

FsFailure == [k |-> "fs", success |-> FALSE]

\* readSingleFile: the file record, or the error thrown
readSingleFile(entry, maxTokens, tokens) ==
  IF entry.kind # "file" THEN FsFailure          \* not found, or not a file
  ELSE LET tokenCount == countTokens(entry.length, tokens)
       IN IF tokenCount > maxTokens THEN FsFailure
          ELSE [k |-> "fs", success |-> TRUE, size |-> entry.size,
                tokenCount |-> tokenCount, content |-> entry.length]

\* the fs_read_file tool
fs_read_file(fsys, maxSize, tokens) ==
  LET actualMaxSize == getMaxInputSize(fsys.config, maxSize)
  IN IF ~actualMaxSize.ok THEN FsFailure
     ELSE readSingleFile(fsys.entry, actualMaxSize.v, tokens)

MaxFileSize == 8
MaxLimit == 4

\* what is at filePath: a file of a byte size whose text has a length in
\* UTF-16 units (not above the byte size), a directory, or nothing
FsEntries ==
  {e \in [kind : {"file"}, size : 0..MaxFileSize, length : 0..MaxFileSize] :
      e.length <= e.size /\ (e.size > 0 => e.length > 0)}
  \cup {[kind |-> "directory", size |-> 0, length |-> 0],
        [kind |-> "missing", size |-> 0, length |-> 0]}

\* .n1ght.json: filesystem.maxInputSize, 0 when it is not set
FsConfigs == [maxInputSize : 0..MaxLimit]

FsReadFile(maxSize, tokens) ==
  /\ Idle
  /\ call' = [op |-> "fs_read_file", maxSize |-> maxSize, tokens |-> tokens]
  /\ ret' = fs_read_file(doc, maxSize, tokens)
  /\ UNCHANGED <<doc, pre>>

\* doc holds what the file reader works on: the entry at filePath and the
\* configuration loaded by the handler's constructor
FsInit ==
  /\ doc \in [entry : FsEntries, config : FsConfigs]
  /\ pre = doc
  /\ call = NoCall
  /\ ret = Undefined

FsNext ==
  Idle /\ \E maxSize \in 0..MaxLimit, tokens \in 0..MaxFileSize :
             /\ (tokens > 0 => doc.entry.kind = "file" /\ tokens <= doc.entry.length)
             /\ FsReadFile(maxSize, tokens)

FsSpec == FsInit /\ [][FsNext]_vars

\* ------------------------------------------------------ the server process

\* the size from which stdout.write returns false (the stream's
\* highWaterMark, scaled), the largest response and the requests of a run
HighWaterMark == 4
MaxResponse == 6
MaxRequests == 3

\* the result of process.stdout.write of a response: on a synchronous stdout
\* (a file, a pipe or a terminal on POSIX) the bytes are written at once and
\* write returns true; on an asynchronous one they are buffered and write
\* returns false when the buffer reaches the highWaterMark
StdoutWrite(proc, size) ==
  IF proc.sync THEN proc
  ELSE [proc EXCEPT !.buffered = proc.buffered + size,
                    !.needDrain = proc.needDrain
                                    \/ proc.buffered + size >= HighWaterMark]

\* the server serves a request: the tool runs and the transport writes the
\* response to stdout
HandleRequest(size) ==
  /\ doc.status = "serving"
  /\ doc.served < MaxRequests
  /\ doc' = [StdoutWrite(doc, size) EXCEPT !.served = doc.served + 1]
  /\ call' = [op |-> "request", n |-> doc.served + 1, size |-> size]
  /\ ret' = [k |-> "response", n |-> doc.served + 1, size |-> size]
  /\ UNCHANGED pre

\* the buffered bytes are written out; 'drain' is emitted if a write had
\* returned false, and its listener calls process.exit(0)
Flush ==
  /\ doc.status = "serving"
  /\ doc.buffered > 0
  /\ doc' = [doc EXCEPT !.buffered = 0,
                        !.needDrain = FALSE,
                        !.status = IF doc.needDrain THEN "exited" ELSE "serving"]
  /\ UNCHANGED <<pre, call, ret>>

\* main: the transport is connected and the 'drain' listener registered;
\* doc holds the state of the process
AppInit ==
  /\ doc \in [status : {"serving"}, sync : BOOLEAN, buffered : {0},
              needDrain : {FALSE}, served : {0}]
  /\ pre = doc
  /\ call = NoCall
  /\ ret = Undefined

AppNext ==
  \/ \E size \in 1..MaxResponse : HandleRequest(size)
  \/ Flush

\* the event loop writes out what is buffered
AppSpec == AppInit /\ [][AppNext]_vars /\ WF_vars(Flush)

\* --------------------------------------------------- the thinking sessions

\* the handler is [sessions, sessionCounter]: sessions is the Map in insertion
\* order, each session [id, thoughts, currentThought, totalThoughts, branches,
\* revisions]. Session and branch ids are strings (sequences of characters);
\* the text of a thought, a branch name and a reason are opaque, "" is the
\* empty text.

sessionPrefix == <<"s", "e", "s", "s", "i", "o", "n", "_">>

DefaultTotalThoughts == 10

\* the number of requests of a run
MaxThinkRequests == 3

\* the place of the key id in the Map, 0 if it has none
SessionIndex(h, id) ==
  IF \E i \in DOMAIN h.sessions : h.sessions[i].id = id
  THEN CHOOSE i \in DOMAIN h.sessions : h.sessions[i].id = id
  ELSE 0

\* sessions.get(id) of a key the Map has
getSession(h, id) == h.sessions[SessionIndex(h, id)]

\* sessions.set(id, session): a key the Map has keeps its place and gets
\* the new value
SetSession(h, session) ==
  LET i == SessionIndex(h, session.id)
  IN [h EXCEPT !.sessions = IF i = 0 THEN Append(@, session)
                            ELSE [@ EXCEPT ![i] = session]]

\* createSession(sessionId): the handler afterwards and the id of the
\* session; the empty sessionId stands for the omitted one (both are falsy)
createSession(h, sessionId) ==
  LET counter == IF sessionId # <<>> THEN h.sessionCounter
                 ELSE h.sessionCounter + 1
      id == IF sessionId # <<>> THEN sessionId
            ELSE sessionPrefix \o NumToStr(counter)
      session == [id |-> id,
                  thoughts |-> <<>>,
                  currentThought |-> 0,
                  totalThoughts |-> DefaultTotalThoughts,
                  branches |-> <<>>,
                  revisions |-> <<>>]
  IN [h |-> SetSession([h EXCEPT !.sessionCounter = counter], session),
      id |-> id]

\* addThought with the first thought numbered 0
addThoughtFromZero(h, sessionId, content) ==
  LET session == getSession(h, sessionId)
      thought == [id |-> Len(session.thoughts),
                  content |-> content,
                  isRevised |-> FALSE,
                  revisionReason |-> Undefined]
      thoughts == Append(session.thoughts, thought)
  IN SetSession(h, [session EXCEPT !.thoughts = thoughts,
                                   !.currentThought = Len(thoughts)])

\* addThought(sessionId, {content}) on a session the handler has
addThought(h, sessionId, content) ==
  LET session == getSession(h, sessionId)
      thought == [id |-> Len(session.thoughts) + 1,
                  content |-> content,
                  isRevised |-> FALSE,
                  revisionReason |-> Undefined]
      thoughts == Append(session.thoughts, thought)
  IN SetSession(h, [session EXCEPT !.thoughts = thoughts,
                                   !.currentThought = Len(thoughts)])

\* the place of the thought with this id among the thoughts, 0 if none
\* (thoughts.find)
ThoughtIndex(session, thoughtId) ==
  IF \E i \in DOMAIN session.thoughts : session.thoughts[i].id = thoughtId
  THEN CHOOSE i \in DOMAIN session.thoughts :
         /\ session.thoughts[i].id = thoughtId
         /\ \A j \in 1..(i - 1) : session.thoughts[j].id # thoughtId
  ELSE 0

\* revisethought that builds the revision record after updating the thought
revisethoughtLate(h, sessionId, thoughtId, newContent, reason) ==
  LET session == getSession(h, sessionId)
      i == ThoughtIndex(session, thoughtId)
      revision == [originalThoughtId |-> thoughtId,
                   originalContent |-> newContent,
                   newContent |-> newContent,
                   reason |-> reason]
  IN IF i = 0 THEN [h |-> h, error |-> "Thought not found"]
     ELSE [h |-> SetSession(h,
                   [session EXCEPT !.revisions = Append(@, revision),
                                   !.thoughts[i].content = newContent,
                                   !.thoughts[i].isRevised = TRUE,
                                   !.thoughts[i].revisionReason = reason]),
           error |-> ""]

\* revisethought(sessionId, thoughtId, newContent, reason) on a session the
\* handler has: the handler afterwards and the message of the Error thrown,
\* "" if none
revisethought(h, sessionId, thoughtId, newContent, reason) ==
  LET session == getSession(h, sessionId)
      i == ThoughtIndex(session, thoughtId)
      revision == [originalThoughtId |-> thoughtId,
                   originalContent |-> session.thoughts[i].content,
                   newContent |-> newContent,
                   reason |-> reason]
  IN IF i = 0 THEN [h |-> h, error |-> "Thought not found"]
     ELSE [h |-> SetSession(h,
                   [session EXCEPT !.revisions = Append(@, revision),
                                   !.thoughts[i].content = newContent,
                                   !.thoughts[i].isRevised = TRUE,
                                   !.thoughts[i].revisionReason = reason]),
           error |-> ""]

\* branchThinking(sessionId, fromThoughtId, branchName, initialThought)
branchThinking(h, sessionId, fromThoughtId, branchName, initialThought) ==
  LET session == getSession(h, sessionId)
      branch == [id |-> sessionId
                          \o <<"_", "b", "r", "a", "n", "c", "h", "_">>
                          \o NumToStr(Len(session.branches) + 1),
                 name |-> branchName,
                 fromThoughtId |-> fromThoughtId,
                 thoughts |-> IF initialThought # ""
                              THEN <<[id |-> 1,
                                      content |-> initialThought,
                                      type |-> "branch_start",
                                      parentThought |-> fromThoughtId]>>
                              ELSE <<>>]
  IN SetSession(h, [session EXCEPT !.branches = Append(@, branch)])

\* adjustTotalThoughts(sessionId, newTotal)
adjustTotalThoughts(h, sessionId, newTotal) ==
  LET session == getSession(h, sessionId)
  IN SetSession(h, [session EXCEPT
                      !.totalThoughts = IF newTotal > 1 THEN newTotal ELSE 1])

\* deleteSession(sessionId)
deleteSession(h, sessionId) ==
  [h EXCEPT !.sessions = SelectSeq(@, LAMBDA s : s.id # sessionId)]

\* the first step of the tool: the session of the request, created if the
\* request names none or one the handler does not have
OpenSession(h, sessionId) ==
  IF sessionId # <<>> /\ SessionIndex(h, sessionId) # 0
  THEN [h |-> h, id |-> sessionId, created |-> FALSE]
  ELSE LET c == createSession(h, sessionId)
       IN [h |-> c.h, id |-> c.id, created |-> TRUE]

\* the tool sequentialthinking: the handler afterwards and the message of the
\* Error it caught, "" if none. A targetThoughtId of 0 and a newTotal of 0
\* stand for the omitted ones (all are falsy)
sequentialthinking(h, req) ==
  LET o == OpenSession(h, req.sessionId)
  IN CASE req.action = "think" ->
            [h |-> addThought(o.h, o.id, req.thought), error |-> ""]
       [] req.action = "revise" ->
            IF req.targetThoughtId = 0
            THEN [h |-> o.h, error |-> "targetThoughtId required for revision"]
            ELSE revisethought(o.h, o.id, req.targetThoughtId, req.thought,
                               req.reason)
       [] req.action = "branch" ->
            IF req.targetThoughtId = 0
            THEN [h |-> o.h, error |-> "targetThoughtId required for branching"]
            ELSE IF req.branchName = ""
            THEN [h |-> o.h, error |-> "branchName required for branching"]
            ELSE [h |-> branchThinking(o.h, o.id, req.targetThoughtId,
                                       req.branchName, req.thought),
                  error |-> ""]
       [] req.action = "adjust_total" ->
            IF req.newTotal = 0
            THEN [h |-> o.h, error |-> "newTotal required for adjustment"]
            ELSE [h |-> adjustTotalThoughts(o.h, o.id, req.newTotal),
                  error |-> ""]
       [] req.action = "summary" ->
            [h |-> o.h, error |-> ""]

\* the session IDs a caller supplies
SessionIds == {<<"x">>, sessionPrefix \o <<"1">>}

\* the requests of the tool, the fields an action does not read left out:
\* sessionId is one of SessionIds or omitted; the thought of a branch
\* request is the first thought of the branch, if it is not empty;
\* targetThoughtId is omitted, the first thought or the second
ThinkRequests ==
  LET sessionIds == SessionIds \union {<<>>}
      targets == {0, 1, 2}
  IN [action : {"think"}, sessionId : sessionIds, thought : {"p", "q"}]
     \union
     [action : {"revise"}, sessionId : sessionIds, thought : {"p", "q"},
      targetThoughtId : targets, reason : {Undefined, Str(<<"w">>)}]
     \union
     [action : {"branch"}, sessionId : sessionIds, thought : {"", "p"},
      targetThoughtId : targets, branchName : {"", "b"}]
     \union
     [action : {"adjust_total"}, sessionId : sessionIds,
      newTotal : {-1, 0, 3}]
     \union
     [action : {"summary"}, sessionId : sessionIds]

\* the requests served so far
Served == IF call = NoCall THEN 0 ELSE call.n

\* a request to the tool sequentialthinking is served; pre keeps the handler
\* as the request found it, and the thoughts added so far to the sessions
\* the handler has, with the content each was added with: the record of the
\* session the request created is dropped, the thought a think request adds
\* is recorded
SequentialThinkingTool(req) ==
  /\ Served < MaxThinkRequests
  /\ LET r == sequentialthinking(doc, req)
     IN /\ doc' = r.h
        /\ ret' = [k |-> "response", error |-> r.error]
  /\ LET o == OpenSession(doc, req.sessionId)
         kept == IF o.created THEN {a \in pre.added : a.session # o.id}
                 ELSE pre.added
         added == IF req.action = "think"
                  THEN kept \union
                         {[session |-> o.id,
                           id |-> Len(getSession(o.h, o.id).thoughts) + 1,
                           content |-> req.thought]}
                  ELSE kept
     IN pre' = [h |-> doc, added |-> added]
  /\ call' = [op |-> "sequentialthinking", n |-> Served + 1, req |-> req]

\* a request to the tool thinking_delete is served
ThinkingDelete(sessionId) ==
  /\ Served < MaxThinkRequests
  /\ doc' = deleteSession(doc, sessionId)
  /\ ret' = [k |-> "response", error |-> "",
             deleted |-> SessionIndex(doc, sessionId) # 0]
  /\ pre' = [h |-> doc, added |-> {a \in pre.added : a.session # sessionId}]
  /\ call' = [op |-> "thinking_delete", n |-> Served + 1,
              sessionId |-> sessionId]

\* the handler after new SequentialThinking()
ThinkInit ==
  /\ doc = [sessions |-> <<>>, sessionCounter |-> 0]
  /\ pre = [h |-> doc, added |-> {}]
  /\ call = NoCall
  /\ ret = Undefined

ThinkNext ==
  \/ \E req \in ThinkRequests : SequentialThinkingTool(req)
  \/ \E sessionId \in SessionIds : ThinkingDelete(sessionId)

ThinkSpec == ThinkInit /\ [][ThinkNext]_vars

\* ------------------------------------------------------------ the todo store

\* doc is the array tasks; a task is [id, title, description, rules,
\* instructions, priority, status, progress]. Task ids are strings, the other
\* texts are opaque.

DefaultPriority == 10

\* the number of requests of a run
MaxTodoRequests == 4

\* the ids uuidv4() returns, and the ids a caller names
Uuids == {<<"u">> \o NumToStr(n) : n \in 1..MaxTodoRequests}

\* tasks.findIndex(task => task.id === id), 0 for -1
TaskIndex(tasks, id) ==
  IF \E i \in DOMAIN tasks : tasks[i].id = id
  THEN CHOOSE i \in DOMAIN tasks :
         /\ tasks[i].id = id
         /\ \A j \in 1..(i - 1) : tasks[j].id # id
  ELSE 0

\* the tool add, uuid being the value of uuidv4()
todoAdd(tasks, uuid, title) ==
  [tasks |-> Append(tasks, [id |-> uuid,
                            title |-> title,
                            description |-> "d",
                            rules |-> "r",
                            instructions |-> "i",
                            priority |-> DefaultPriority,
                            status |-> "pending",
                            progress |-> ""]),
   text |-> "Task added"]

\* remove with splice(index) in place of splice(index, 1)
todoRemoveRest(tasks, id) ==
  LET index == TaskIndex(tasks, id)
  IN IF index # 0
     THEN [tasks |-> SubSeq(tasks, 1, index - 1), text |-> "Task removed"]
     ELSE [tasks |-> tasks, text |-> "Task not found"]

\* the tool remove
todoRemove(tasks, id) ==
  LET index == TaskIndex(tasks, id)
  IN IF index # 0
     THEN [tasks |-> SubSeq(tasks, 1, index - 1)
                       \o SubSeq(tasks, index + 1, Len(tasks)),
           text |-> "Task removed"]
     ELSE [tasks |-> tasks, text |-> "Task not found"]

\* the tool priority
todoPriority(tasks, id, priority) ==
  LET index == TaskIndex(tasks, id)
  IN IF index # 0
     THEN [tasks |-> [tasks EXCEPT ![index].priority = priority],
           text |-> "Priority set for task"]
     ELSE [tasks |-> tasks, text |-> "Task not found"]

\* the tool status
todoStatus(tasks, id, status) ==
  LET index == TaskIndex(tasks, id)
  IN IF index # 0
     THEN [tasks |-> [tasks EXCEPT ![index].status = status],
           text |-> "Status set for task"]
     ELSE [tasks |-> tasks, text |-> "Task not found"]

\* the tool progress
todoProgress(tasks, id, progress) ==
  LET index == TaskIndex(tasks, id)
  IN IF index # 0
     THEN [tasks |-> [tasks EXCEPT ![index].progress = progress],
           text |-> "Progress set for task"]
     ELSE [tasks |-> tasks, text |-> "Task not found"]

\* a request is served: r is what the tool makes of the tasks; pre keeps the
\* tasks as the request found them
TodoServe(request, r) ==
  /\ Served < MaxTodoRequests
  /\ doc' = r.tasks
  /\ pre' = doc
  /\ call' = [request EXCEPT !.n = Served + 1]
  /\ ret' = [k |-> "response", text |-> r.text]

TodoList ==
  TodoServe([op |-> "list", n |-> 0], [tasks |-> doc, text |-> "tasks"])

\* uuidv4() returns an id that no stored task has
TodoAdd(uuid, title) ==
  /\ TaskIndex(doc, uuid) = 0
  /\ TodoServe([op |-> "add", n |-> 0, title |-> title],
               todoAdd(doc, uuid, title))

TodoRemove(id) ==
  TodoServe([op |-> "remove", n |-> 0, id |-> id], todoRemove(doc, id))

TodoPriority(id, priority) ==
  TodoServe([op |-> "priority", n |-> 0, id |-> id, priority |-> priority],
            todoPriority(doc, id, priority))

TodoStatus(id, status) ==
  TodoServe([op |-> "status", n |-> 0, id |-> id, status |-> status],
            todoStatus(doc, id, status))

TodoProgress(id, progress) ==
  TodoServe([op |-> "progress", n |-> 0, id |-> id, progress |-> progress],
            todoProgress(doc, id, progress))

TodoInit ==
  /\ doc = <<>>
  /\ pre = doc
  /\ call = NoCall
  /\ ret = Undefined

TodoNext ==
  \/ TodoList
  \/ \E uuid \in Uuids, title \in {"s", "t"} : TodoAdd(uuid, title)
  \/ \E id \in Uuids : TodoRemove(id)
  \/ \E id \in Uuids, priority \in {1, DefaultPriority} :
        TodoPriority(id, priority)
  \/ \E id \in Uuids, status \in {"pending", "done"} : TodoStatus(id, status)
  \/ \E id \in Uuids, progress \in {"", "half"} : TodoProgress(id, progress)

TodoSpec == TodoInit /\ [][TodoNext]_vars

\* ------------------------------------------------------------------- claims

\* the value at the first n segments, read as T[k1][k2]...[kn]
RECURSIVE PropAt(_, _, _)
PropAt(T, keys, n) ==
  IF n = 0 THEN T ELSE GetProp(PropAt(T, keys, n - 1), keys[n])

\* the value at the first n segments when only Mappings are descended, by
\* their own keys; Undefined where a segment is missing or the node is not a
\* Mapping
RECURSIVE MappingAt(_, _, _)
MappingAt(T, keys, n) ==
  IF n = 0 THEN T
  ELSE LET parent == MappingAt(T, keys, n - 1)
       IN IF parent.k = "object" /\ EntryIndex(parent.v, keys[n]) # 0
          THEN parent.v[EntryIndex(parent.v, keys[n])].val
          ELSE Undefined

IsSet == call.op = "setValue"
IsDelete == call.op = "deleteValue"
IsGet == call.op = "getValue"
IsSearch == call.op = "searchKeyword"
\* a dot path, not a JSONPath expression
DotPath(path) == ~startsWith(path, <<"$">>)

\* C1: write-then-read. On a tree whose root is a Mapping, setValue with any
\* dot path and value succeeds and getValue of the same path then returns
\* that value.
C1_WriteThenRead ==
  (IsSet /\ pre.k = "object" /\ DotPath(call.path))
    => (ret # Threw /\ getValue(doc, call.path) = call.value)

\* C2: search cap. searchKeyword never returns more than maxResults matches.
C2_SearchCap ==
  (IsSearch /\ ret # Threw) => Len(ret.v) <= call.options.maxResults

\* C3: assign coercion. setValue on a Mapping root never fails, and after it
\* every node on the path above the final key is a Mapping.
C3_IntermediatesAreMappings ==
  (IsSet /\ pre.k = "object" /\ DotPath(call.path))
    => /\ ret # Threw
       /\ \A n \in 0..(Len(split(call.path)) - 1) :
             PropAt(doc, split(call.path), n).k = "object"

\* C4: remove on an absent path. When an intermediate segment is missing or
\* is not a Mapping, deleteValue returns without an error and leaves the
\* tree unchanged (stated here for the trees whose root is a Mapping).
C4_RemoveAbsentIsNoOp ==
  (IsDelete /\ pre.k = "object" /\ DotPath(call.path) /\ \E n \in 1..(Len(split(call.path)) - 1) :
                  MappingAt(pre, split(call.path), n).k # "object")
    => (ret # Threw /\ doc = pre)

\* C5: idempotent delete. A second deleteValue of the same path leaves the
\* tree as the first one left it.
C5_IdempotentDelete ==
  IsDelete => deleteValue(doc, call.path).node = doc

\* C5 witness: a delete that removed something
C5_Witness == IsDelete /\ ret # Threw /\ doc # pre

\* C6: round-trip identity. When getValue of a path succeeds, setValue of
\* that path to the value read leaves the tree unchanged.
C6_RoundTrip ==
  (IsGet /\ ret # Undefined) => setValue(doc, call.path, ret).node = doc

\* C7 as stated: getValue descends only through Mappings that hold the
\* segment as a key, and returns NotFound in every other case.
C7_MappingsOnly ==
  IsGet => ret = MappingAt(pre, split(call.path), Len(split(call.path)))

\* the segments a node of a parsed document answers: a Mapping its keys, a
\* Sequence its indices in range and length, both the inherited constructor
HasProperty(node, key) ==
  \/ /\ node.k = "object"
     /\ \E i \in DOMAIN node.v : node.v[i].key = key
  \/ /\ node.k = "array"
     /\ \/ \E i \in DOMAIN node.v : key = NumToStr(i - 1) /\ node.v[i] # Hole
        \/ key = kLength
  \/ /\ node.k \in {"object", "array"}
     /\ key = kConstructor

\* C7 as amended: getValue descends through every Mapping and Sequence that
\* has the segment as a property (`segment in node`: an own key, an index in
\* range, length, an inherited name) and returns NotFound as soon as the
\* current node is a scalar or Null or lacks the segment; it never throws.
C7_ObjectsAndArrays ==
  IsGet =>
    LET keys == split(call.path)
    IN /\ ret # Threw
       /\ ret = IF \A n \in 1..Len(keys) :
                      HasProperty(PropAt(pre, keys, n - 1), keys[n])
                THEN PropAt(pre, keys, Len(keys))
                ELSE Undefined

\* C7 witness: a read that went through a Sequence by an index
C7_Witness ==
  /\ IsGet
  /\ ret \notin {Undefined, Fn}
  /\ \E n \in 1..Len(split(call.path)) :
        /\ PropAt(pre, split(call.path), n - 1).k = "array"
        /\ IsArrayIndex(split(call.path)[n])

\* C8 as stated: getValue with the empty path returns the whole tree.
C8_EmptyPathIsTree ==
  (IsGet /\ call.path = <<>>) => ret = pre

\* C8 as amended: the empty path is the single empty segment, so getValue
\* returns the value under the key "" of a Mapping root and NotFound when
\* the root has no such key.
C8_EmptyPathIsEmptyKey ==
  (IsGet /\ call.path = <<>>) =>
     ret = IF pre.k = "object" /\ EntryIndex(pre.v, <<>>) # 0
           THEN pre.v[EntryIndex(pre.v, <<>>)].val
           ELSE Undefined

\* C8 witness: the empty path read on a Mapping without the key ""
C8_Witness ==
  /\ IsGet /\ call.path = <<>>
  /\ pre.k = "object" /\ pre.v # <<>>
  /\ ret = Undefined

RECURSIVE ScalarItems(_, _)
ScalarItems(node, path) ==
  CASE node.k = "array" ->
         UNION {IF typeof(node.v[i]) = "object"
                THEN ScalarItems(node.v[i], ItemPath(path, i - 1))
                ELSE {<<ItemPath(path, i - 1), node.v[i]>>} : i \in DOMAIN node.v}
    [] node.k = "object" ->
         UNION {ScalarItems(node.v[i].val, KeyPath(path, node.v[i].key)) :
                  i \in DOMAIN node.v}
    [] OTHER -> {}

\* C10: with searchValues, every scalar element of a Sequence whose string
\* form matches the keyword yields a value Match at its bracket-index path
\* (as long as the cap is not reached).
C10_ScalarItemsMatched ==
  (IsSearch /\ ~call.options.regex /\ call.options.searchValues
     /\ ret # Threw /\ Len(ret.v) < call.options.maxResults)
    => \A it \in ScalarItems(pre, <<>>) :
          matches(ToStr(it[2]), Str(call.keyword),
                  call.options.caseSensitive, 0).hit
            => \E i \in DOMAIN ret.v :
                  /\ ret.v[i].type = "value"
                  /\ ret.v[i].path = it[1]
                  /\ ret.v[i].value = it[2]

\* ---------------------------------------------- claims: keys and structure

IsKeys == call.op = "getAllKeys"
IsStructure == call.op = "getStructure"

\* the children of a node of a parsed document, in tree order
Children(node) ==
  CASE node.k = "array" -> node.v
    [] node.k = "object" -> [i \in DOMAIN node.v |-> node.v[i].val]
    [] OTHER -> <<>>

\* the number of levels below a node
RECURSIVE Height(_)
Height(node) ==
  IF Children(node) = <<>> THEN 0
  ELSE LET hs == {Height(Children(node)[i]) : i \in DOMAIN Children(node)}
       IN 1 + CHOOSE h \in hs : \A h2 \in hs : h2 <= h

\* the tree with every node below depth d replaced by Null
RECURSIVE Truncate(_, _, _)
Truncate(node, d, depth) ==
  CASE node.k = "array" ->
         [node EXCEPT !.v = [i \in DOMAIN node.v |->
            IF depth >= d THEN Null ELSE Truncate(node.v[i], d, depth + 1)]]
    [] node.k = "object" ->
         [node EXCEPT !.v = [i \in DOMAIN node.v |->
            E(node.v[i].key,
              IF depth >= d THEN Null ELSE Truncate(node.v[i].val, d, depth + 1))]]
    [] OTHER -> node

\* a size descriptor of a collection or the type name of a scalar
IsDescriptor(res, data) ==
  /\ res.k = "string"
  /\ CASE data.k = "array" ->
            /\ startsWith(res.v, <<"[", "A", "r", "r", "a", "y", "(">>)
            /\ includes(res.v, <<"(">> \o NumToStr(Len(data.v)) \o <<")">>)
       [] data.k = "object" ->
            /\ startsWith(res.v, <<"{", "O", "b", "j", "e", "c", "t">>)
            /\ includes(res.v, <<" ">> \o NumToStr(Len(data.v)) \o <<" ">>)
       [] OTHER -> res.v = TypeofStr(data)

\* in the structure res of data, every node at depth d that res shows is a
\* descriptor (the entry `...` of a Mapping of more than 20 keys is the
\* marker)
RECURSIVE BoundaryIsDescriptor(_, _, _, _)
BoundaryIsDescriptor(data, res, d, depth) ==
  IF depth = d THEN IsDescriptor(res, data)
  ELSE CASE data.k = "array" /\ data.v # <<>> ->
              /\ res.k = "array" /\ Len(res.v) = 2 /\ res.v[2].k = "array"
              /\ \A i \in DOMAIN res.v[2].v :
                    BoundaryIsDescriptor(data.v[i], res.v[2].v[i], d, depth + 1)
         [] data.k = "object" ->
              /\ res.k = "object"
              /\ \A i \in DOMAIN data.v :
                    (/\ EntryIndex(res.v, data.v[i].key) # 0
                     /\ ~(Len(data.v) > 20 /\ data.v[i].key = <<".", ".", ".">>))
                      => BoundaryIsDescriptor(data.v[i].val,
                                              GetProp(res, data.v[i].key), d, depth + 1)
         [] OTHER -> TRUE

\* C11: depth bound of getStructure. The result is the one of the tree cut
\* below depth maxDepth, so no deeper node contributes to it, and every node
\* at depth maxDepth appears in it as a compact descriptor.
C11_DepthBound ==
  IsStructure =>
    /\ ret = getStructure(Truncate(pre, call.maxDepth, 0), call.maxDepth, 0)
    /\ BoundaryIsDescriptor(pre, ret, call.maxDepth, 0)

\* C11 witness: a structure taken of a tree that is deeper than maxDepth
C11_Witness ==
  /\ IsStructure
  /\ call.maxDepth >= 1
  /\ Height(pre) > call.maxDepth + 1
  /\ ret.k = "object"

\* the addresses of the nodes of a tree: the child positions from the root
RECURSIVE Addrs(_)
Addrs(node) ==
  {<<>>} \cup UNION {{<<i>> \o a : a \in Addrs(Children(node)[i])} :
                       i \in DOMAIN Children(node)}

RECURSIVE NodeAt(_, _)
NodeAt(T, a) == IF a = <<>> THEN T ELSE NodeAt(Children(T)[a[1]], Tail(a))

\* the path string of the node at an address: `.key` below a Mapping,
\* `[i]` below a Sequence
RECURSIVE PathFrom(_, _, _)
PathFrom(T, a, prefix) ==
  IF a = <<>> THEN prefix
  ELSE PathFrom(Children(T)[a[1]], Tail(a),
                IF T.k = "array"
                THEN prefix \o <<"[">> \o NumToStr(a[1] - 1) \o <<"]">>
                ELSE IF prefix = <<>> THEN T.v[a[1]].key
                ELSE prefix \o <<".">> \o T.v[a[1]].key)

PathAt(T, a) == PathFrom(T, a, <<>>)

\* no step of the address goes beyond the first 10 elements of a Sequence
WithinCap(T, a) ==
  \A j \in DOMAIN a :
     NodeAt(T, SubSeq(a, 1, j - 1)).k = "array" => a[j] <= 10

\* the nodes getAllKeys expands: above the depth limit and within the cap
Expanded(T, a, maxDepth) == Len(a) < maxDepth /\ WithinCap(T, a)

Positions(q, x) == {i \in DOMAIN q : q[i] = x}

\* the entries of q that are markers of the Sequence at path p
Markers(q, p) == {i \in DOMAIN q : startsWith(q[i], p \o <<"[", ".", ".", ".">>)}

\* C13: Sequence cap of getAllKeys. For a Sequence of length n that
\* getAllKeys expands, the index paths of its first min(n, 10) elements are
\* emitted once each and no other; when n > 10 exactly one marker follows
\* them, which states n - 10, and there is no marker otherwise. Every key of
\* an expanded Mapping is emitted.
C13_SequenceCap ==
  IsKeys =>
    \A a \in Addrs(pre) :
       LET node == NodeAt(pre, a)
           p == PathAt(pre, a)
       IN Expanded(pre, a, call.maxDepth) =>
            /\ node.k = "array" =>
                 LET n == Len(node.v)
                     item(i) == p \o <<"[">> \o NumToStr(i) \o <<"]">>
                 IN /\ \A i \in 0..(n - 1) :
                          Cardinality(Positions(ret.v, item(i))) = IF i < 10 THEN 1 ELSE 0
                    /\ Cardinality(Markers(ret.v, p)) = IF n > 10 THEN 1 ELSE 0
                    /\ \A m \in Markers(ret.v, p) :
                          /\ includes(ret.v[m], <<".">> \o NumToStr(n - 10) \o <<" ">>)
                          /\ \A i \in 0..(n - 1) :
                                \A j \in Positions(ret.v, item(i)) : j < m
            /\ node.k = "object" =>
                 \A i \in DOMAIN node.v :
                    Cardinality(Positions(ret.v, PathAt(pre, Append(a, i)))) = 1

\* C13 witness: the keys of a tree with an expanded Sequence of more than 10
\* elements
C13_Witness ==
  /\ IsKeys
  /\ \E a \in Addrs(pre) :
        /\ Expanded(pre, a, call.maxDepth)
        /\ NodeAt(pre, a).k = "array"
        /\ Len(NodeAt(pre, a).v) > 10
        /\ Markers(ret.v, PathAt(pre, a)) # {}

\* pre-order of addresses: a parent before its descendants, siblings in
\* tree order
Before(a, b) ==
  \/ Len(a) < Len(b) /\ SubSeq(b, 1, Len(a)) = a
  \/ \E j \in 1..Min(Len(a), Len(b)) :
        /\ SubSeq(a, 1, j - 1) = SubSeq(b, 1, j - 1)
        /\ a[j] < b[j]

\* the sequence of the addresses of a set in pre-order
InPreOrder(S) ==
  [i \in 1..Cardinality(S) |->
     CHOOSE a \in S : Cardinality({b \in S : Before(b, a)}) = i - 1]

\* the addresses at nesting level 1..maxDepth
Levels(T, maxDepth) == {a \in Addrs(T) : Len(a) >= 1 /\ Len(a) <= maxDepth}

\* C14 as stated: getAllKeys returns in pre-order the path of every node at
\* nesting level 1..maxDepth, and nothing else.
C14_PreOrderEveryNode ==
  IsKeys =>
    ret.v = [i \in 1..Cardinality(Levels(pre, call.maxDepth)) |->
               PathAt(pre, InPreOrder(Levels(pre, call.maxDepth))[i])]

\* the place of the marker of a Sequence of more than 10 elements: after
\* its tenth element
MarkerPlaces(T, maxDepth) ==
  {Append(a, 11) : a \in {b \in Addrs(T) : /\ Expanded(T, b, maxDepth)
                                           /\ NodeAt(T, b).k = "array"
                                           /\ Len(NodeAt(T, b).v) > 10}}

\* the nodes getAllKeys lists: at level 1..maxDepth, not beyond the tenth
\* element of a Sequence nor below such an element
Listed(T, maxDepth) == {a \in Levels(T, maxDepth) : WithinCap(T, a)}

\* the entry for a listed node or for a marker place
EntryAt(T, a, maxDepth) ==
  IF a \in MarkerPlaces(T, maxDepth)
  THEN LET p == PathAt(T, SubSeq(a, 1, Len(a) - 1))
           n == Len(NodeAt(T, SubSeq(a, 1, Len(a) - 1)).v)
       IN p \o <<"[", ".", ".", ".">> \o NumToStr(n - 10)
            \o <<" ", "m", "o", "r", "e", " ", "i", "t", "e", "m", "s", "]">>
  ELSE PathAt(T, a)

\* C14 as amended: getAllKeys returns in pre-order the path of every node at
\* nesting level 1..maxDepth that is not beyond the first 10 elements of a
\* Sequence (nor below such an element), with one marker entry in the place
\* of the omitted elements of each Sequence of more than 10; nothing deeper
\* than maxDepth is listed and maxDepth 0 gives the empty list.
C14_PreOrderWithinCap ==
  IsKeys =>
    LET S == Listed(pre, call.maxDepth) \cup MarkerPlaces(pre, call.maxDepth)
    IN ret.v = [i \in 1..Cardinality(S) |->
                  EntryAt(pre, InPreOrder(S)[i], call.maxDepth)]

\* C14 witness: keys listed of a tree that goes below maxDepth, with a
\* Mapping below a Mapping
C14_Witness ==
  /\ IsKeys
  /\ call.maxDepth >= 2
  /\ Height(pre) > call.maxDepth
  /\ Len(ret.v) >= 2

\* ------------------------------------------------- claims: Sequences

\* the property keys that lead to the node at an address
RECURSIVE KeysFrom(_, _)
KeysFrom(T, a) ==
  IF a = <<>> THEN <<>>
  ELSE <<IF T.k = "array" THEN NumToStr(a[1] - 1) ELSE T.v[a[1]].key>>
         \o KeysFrom(Children(T)[a[1]], Tail(a))

\* an element is the one it was: the same scalar, or still a collection of
\* the same kind
SameElement(old, new) ==
  IF old.k \in {"array", "object"} THEN new.k = old.k ELSE new = old

\* C17: setValue and deleteValue do not address Sequence elements. After a
\* call with any dot path, every Sequence of the tree that is still in its
\* place has the length, the elements and the element order it had.
C17_SequencesUntouched ==
  ((IsSet \/ IsDelete) /\ DotPath(call.path)) =>
    \A a \in Addrs(pre) :
       LET old == NodeAt(pre, a)
           new == PropAt(doc, KeysFrom(pre, a), Len(a))
       IN (old.k = "array" /\ new.k = "array") =>
            /\ Len(new.v) = Len(old.v)
            /\ \A i \in DOMAIN old.v : SameElement(old.v[i], new.v[i])

\* ---------------------------------------------------- claims: read-only

IsRepeat == call.op = "repeat"

IsFsRead == call.op = "fs_read_file"

\* the limit in force: the request's maxSize, else the configured
\* filesystem.maxInputSize (0: neither is given)
EffectiveLimit ==
  IF call.maxSize > 0 THEN call.maxSize ELSE pre.config.maxInputSize

\* C16: size limit of fs_read_file. A file whose byte size exceeds the
\* limit in force is refused (success false, no content); a successful
\* result carries the whole content and a size not above the limit.
C16_SizeLimit ==
  IsFsRead =>
    /\ (pre.entry.kind = "file" /\ pre.entry.size > EffectiveLimit)
          => ret.success = FALSE
    /\ ret.success => (ret.content = pre.entry.length /\ ret.size <= EffectiveLimit)

\* ------------------------------------------------------- claims: search

\* C12: invalid pattern. In regex mode a keyword that is not a valid regular
\* expression makes searchKeyword throw, with no matches returned; without
\* regex mode no keyword makes it throw.
C12_InvalidPattern ==
  IsSearch =>
    /\ (call.options.regex /\ ~ValidRegExp(call.keyword)) => ret = Threw
    /\ ~call.options.regex => (ret # Threw /\ ret.k = "results")

\* C12 witness: a regex search with a pattern that does not compile
C12_Witness ==
  IsSearch /\ call.options.regex /\ ~ValidRegExp(call.keyword) /\ ret = Threw

\* the (match kind, path) pairs of a search result
KindsAndPaths(r) == [i \in DOMAIN r.v |-> <<r.v[i].type, r.v[i].path>>]

\* C18: the four front-ends run the same search. For the same tree, keyword
\* and options the searchKeyword of the JSON, XML, YAML and TOML handlers
\* return the same sequence of (match kind, path) pairs.
C18_SameSearch ==
  IsSearch =>
    \A h \in Handlers :
       LET other == searchKeyword(h, pre, call.keyword, call.options)
       IN /\ (other = Threw) = (ret = Threw)
          /\ ret # Threw => KindsAndPaths(other) = KindsAndPaths(ret)

\* C19: regex search matches each text independently. In regex mode the
\* result is the one obtained when every key and every searched value is
\* tested by a pattern without state; for the patterns of literal
\* characters that is the result of the substring search.
C19_RegexIsStateless ==
  (IsSearch /\ call.options.regex /\ ret # Threw) =>
     ret = searchKeyword(call.handler, pre, call.keyword,
                         [call.options EXCEPT !.regex = FALSE])

\* the entries of the Mappings of a tree, as addresses
Entries(T) ==
  {a \in Addrs(T) : a # <<>> /\ NodeAt(T, SubSeq(a, 1, Len(a) - 1)).k = "object"}

\* the entry a Match reports: the one whose path the Match carries
EntryOf(T, m) == CHOOSE a \in Entries(T) : PathAt(T, a) = m.path

\* C20: search emission order. Every Match reports an entry of a Mapping;
\* of two Matches the earlier one reports an entry that comes first in
\* pre-order (an ancestor before its descendants, a whole subtree before a
\* later sibling), or both report the same entry, the key Match first.
C20_EmissionOrder ==
  (IsSearch /\ ret # Threw) =>
     /\ \A i \in DOMAIN ret.v : \E a \in Entries(pre) : PathAt(pre, a) = ret.v[i].path
     /\ \A i, j \in DOMAIN ret.v :
           i < j =>
             \/ Before(EntryOf(pre, ret.v[i]), EntryOf(pre, ret.v[j]))
             \/ /\ EntryOf(pre, ret.v[i]) = EntryOf(pre, ret.v[j])
                /\ ret.v[i].type = "key"
                /\ ret.v[j].type = "value"

\* C20 witness: a key Match and a value Match of one entry, then a Match of
\* a descendant of it, then a Match of a later sibling
C20_Witness ==
  /\ IsSearch /\ ret # Threw
  /\ \E i, j, m, n \in DOMAIN ret.v :
        /\ i < j /\ j < m /\ m < n
        /\ ret.v[i].type = "key" /\ ret.v[j].type = "value"
        /\ ret.v[i].path = ret.v[j].path
        /\ LET e == EntryOf(pre, ret.v[i])
               c == EntryOf(pre, ret.v[m])
               l == EntryOf(pre, ret.v[n])
           IN /\ Len(c) > Len(e) /\ SubSeq(c, 1, Len(e)) = e
              /\ Len(l) = Len(e)
              /\ SubSeq(l, 1, Len(e) - 1) = SubSeq(e, 1, Len(e) - 1)
              /\ l[Len(l)] > e[Len(e)]

\* ---------------------------------------------------- claims: previews

IsPreview == call.op = "getPreview"

\* a string that names a count and not the content of a collection
IsCountDescriptor(res, n) ==
  /\ res.k = "string"
  /\ Len(res.v) <= 20
  /\ includes(res.v, <<"(">> \o NumToStr(n))

\* what the claims call the preview of a value: a string of at most 100
\* characters unchanged, a longer one cut to 100 characters with the
\* ellipsis marker, a count descriptor for a Sequence or a Mapping, the text
\* form of any other value
IsPreviewOf(res, value) ==
  CASE value.k = "string" /\ Len(value.v) <= 100 -> res = value
    [] value.k = "string" /\ Len(value.v) > 100 ->
         res = Str(SubSeq(value.v, 1, 100) \o <<".", ".", ".">>)
    [] value.k \in {"array", "object"} -> IsCountDescriptor(res, Len(value.v))
    [] OTHER -> res = Str(ToStr(value))

\* C21: every Match carries a preview. In every Match of a search, a key
\* Match or a value Match, the value field is the preview of the value of
\* the entry the Match reports.
C21_MatchesCarryPreviews ==
  (IsSearch /\ ret # Threw) =>
     \A i \in DOMAIN ret.v :
        IsPreviewOf(ret.v[i].value, NodeAt(pre, EntryOf(pre, ret.v[i])))

\* C24: getPreview. A string of at most 100 characters is returned
\* unchanged, a longer one as its first 100 characters and the ellipsis
\* marker, a Sequence as a descriptor of its length, a Mapping as a
\* descriptor of its key count, every other value as its text form.
C24_Preview ==
  IsPreview => IsPreviewOf(ret, pre)

\* C24 witness: the preview of a string of more than 100 characters
C24_Witness ==
  /\ IsPreview
  /\ pre.k = "string" /\ Len(pre.v) > 100
  /\ Len(ret.v) = 103

\* ------------------------------------------- claims: keys and structure, 2

\* an entry of getAllKeys that stands for omitted elements
IsMarker(p) == includes(p, <<"[", ".", ".", ".">>)

\* C22: the paths getAllKeys lists are readable. For every path of the
\* result that is not a marker, getValue of that path returns the node the
\* path was listed for, and never NotFound.
C22_ListedPathsResolve ==
  IsKeys =>
    \A i \in DOMAIN ret.v :
       ~IsMarker(ret.v[i]) =>
          /\ getValue(pre, ret.v[i]) # Undefined
          /\ \E a \in Addrs(pre) :
                /\ PathAt(pre, a) = ret.v[i]
                /\ getValue(pre, ret.v[i]) = NodeAt(pre, a)

\* C23: sampling of getStructure. Under the depth limit a Sequence of n
\* elements has its first min(n, 3) elements summarized and is tagged as a
\* sample exactly when n > 3 (an empty Sequence gives an empty summary); a
\* Mapping of k keys has its first min(k, 20) keys summarized, each under its
\* own key, and exactly when k > 20 one more entry that states k - 20 more
\* keys.
C23_Sampling ==
  (IsStructure /\ call.maxDepth >= 1) =>
    /\ (pre.k = "array" /\ pre.v = <<>>) => ret = Arr(<<>>)
    /\ (pre.k = "array" /\ pre.v # <<>>) =>
          /\ ret.k = "array" /\ Len(ret.v) = 2
          /\ ret.v[2] = Arr([i \in 1..Min(Len(pre.v), 3) |->
                               getStructure(pre.v[i], call.maxDepth, 1)])
          /\ includes(ret.v[1].v, <<"S", "a", "m", "p", "l", "e">>) <=> Len(pre.v) > 3
    /\ pre.k = "object" =>
          LET k == Len(pre.v)
              shown == Min(k, 20)
          IN /\ ret.k = "object"
             /\ Len(ret.v) = IF k > 20 THEN shown + 1 ELSE shown
             /\ \A i \in 1..shown :
                   /\ EntryIndex(ret.v, pre.v[i].key) # 0
                   /\ GetProp(ret, pre.v[i].key)
                        = getStructure(pre.v[i].val, call.maxDepth, 1)
             /\ k > 20 =>
                   \E j \in DOMAIN ret.v :
                      /\ \A i \in 1..shown : ret.v[j].key # pre.v[i].key
                      /\ ret.v[j].val.k = "string"
                      /\ startsWith(ret.v[j].val.v,
                                    NumToStr(k - 20) \o <<" ", "m", "o", "r", "e">>)

\* ----------------------------------------------------- claims: the process

\* C25: one request per process. Once the server has written the response
\* to a request, the process eventually exits, whatever the size of the
\* response.
C25_ExitsAfterOneRequest ==
  [](ret.k = "response" => <>(doc.status = "exited"))

\* ------------------------------------------------ claims: thinking sessions

IsThinking == call # NoCall /\ call.op = "sequentialthinking"

\* the session s has in after all that it has in before: the thoughts with
\* their IDs, the branches and the revisions
KeepsAll(before, after) ==
  /\ Len(after.thoughts) >= Len(before.thoughts)
  /\ \A j \in DOMAIN before.thoughts :
        after.thoughts[j].id = before.thoughts[j].id
  /\ Len(after.branches) >= Len(before.branches)
  /\ \A j \in DOMAIN before.branches : after.branches[j] = before.branches[j]
  /\ Len(after.revisions) >= Len(before.revisions)
  /\ \A j \in DOMAIN before.revisions :
        after.revisions[j] = before.revisions[j]

\* C26: creating a thinking session never overwrites an existing one. After
\* a sequentialthinking request without sessionId, the auto-generated ID
\* session_<sessionCounter> is the ID of no session that existed before the
\* request; and after any sequentialthinking request every session that
\* existed before still exists and has lost no thought, branch or revision.
C26_NoOverwrite ==
  IsThinking =>
    /\ call.req.sessionId = <<>> =>
          \A i \in DOMAIN pre.h.sessions :
             pre.h.sessions[i].id
               # sessionPrefix \o NumToStr(doc.sessionCounter)
    /\ \A i \in DOMAIN pre.h.sessions :
          \E j \in DOMAIN doc.sessions :
             /\ doc.sessions[j].id = pre.h.sessions[i].id
             /\ KeepsAll(pre.h.sessions[i], doc.sessions[j])

\* C27: a failed sequentialthinking request changes nothing. When the
\* response is an Error, the sessions of the handler, their order and the
\* content of each are what they were before the request.
C27_FailureChangesNothing ==
  (IsThinking /\ ret.error # "") => doc.sessions = pre.h.sessions

\* C28: thought numbering. In every session the thoughts have the IDs 1..n
\* in list order, and currentThought is n.
C28_ThoughtNumbering ==
  \A i \in DOMAIN doc.sessions :
     LET session == doc.sessions[i]
     IN /\ \A j \in DOMAIN session.thoughts : session.thoughts[j].id = j
        /\ session.currentThought = Len(session.thoughts)

\* a session with two thoughts, one of them revised
C28_Witness ==
  /\ IsThinking
  /\ \E i \in DOMAIN doc.sessions :
        /\ Len(doc.sessions[i].thoughts) = 2
        /\ Len(doc.sessions[i].revisions) = 1

\* the revisions of the thought thoughtId, in the order they were made
RevisionsOf(session, thoughtId) ==
  SelectSeq(session.revisions, LAMBDA r : r.originalThoughtId = thoughtId)

\* the revise request just served did what a revise does: one more revision
\* record, made of the target, its content before and the new content; the
\* target has the new content, the other thoughts and the other sessions are
\* as before
RevisedOnly(before, after, req) ==
  /\ req.sessionId # <<>>
  /\ \E i \in DOMAIN before.sessions : before.sessions[i].id = req.sessionId
  /\ Len(after.sessions) = Len(before.sessions)
  /\ \A i \in DOMAIN before.sessions :
        LET s == before.sessions[i]
            t == after.sessions[i]
        IN IF s.id # req.sessionId THEN t = s
           ELSE /\ t.id = s.id
                /\ t.currentThought = s.currentThought
                /\ t.totalThoughts = s.totalThoughts
                /\ t.branches = s.branches
                /\ Len(t.revisions) = Len(s.revisions) + 1
                /\ SubSeq(t.revisions, 1, Len(s.revisions)) = s.revisions
                /\ Len(t.thoughts) = Len(s.thoughts)
                /\ \A j \in DOMAIN s.thoughts :
                      /\ t.thoughts[j].id = s.thoughts[j].id
                      /\ IF s.thoughts[j].id # req.targetThoughtId
                         THEN t.thoughts[j] = s.thoughts[j]
                         ELSE LET r == t.revisions[Len(t.revisions)]
                              IN /\ r.originalThoughtId = req.targetThoughtId
                                 /\ r.originalContent = s.thoughts[j].content
                                 /\ r.newContent = req.thought
                                 /\ t.thoughts[j].content = req.thought

\* the revisions of every thought make a chain from the content the thought
\* was added with to the content it has
RevisionChain(h, added) ==
  \A i \in DOMAIN h.sessions :
     LET session == h.sessions[i]
     IN \A j \in DOMAIN session.thoughts :
           LET thought == session.thoughts[j]
               rs == RevisionsOf(session, thought.id)
           IN rs # <<>> =>
                 /\ [session |-> session.id, id |-> thought.id,
                     content |-> rs[1].originalContent] \in added
                 /\ \A n \in 2..Len(rs) :
                       rs[n].originalContent = rs[n - 1].newContent
                 /\ thought.content = rs[Len(rs)].newContent

\* C29: revision history. A successful revise appends exactly one revision
\* record and changes only the targeted thought (as many thoughts, the same
\* IDs); and for every thought the originalContent of its first revision is
\* the content it was added with, that of each later revision is the
\* newContent of the one before, and its content is the newContent of its
\* last revision.
C29_RevisionHistory ==
  /\ (IsThinking /\ call.req.action = "revise" /\ ret.error = "") =>
        RevisedOnly(pre.h, doc, call.req)
  /\ RevisionChain(doc, pre.added)

\* a second successful revise of one thought, with a new content
C29_Witness ==
  /\ IsThinking
  /\ call.req.action = "revise"
  /\ ret.error = ""
  /\ \E i \in DOMAIN doc.sessions :
        LET rs == RevisionsOf(doc.sessions[i], call.req.targetThoughtId)
        IN /\ Len(rs) = 2
           /\ rs[1].newContent # rs[1].originalContent
           /\ rs[2].newContent # rs[2].originalContent

\* ------------------------------------------------------- claims: todo store

IsTodo(op) == call # NoCall /\ call.op = op

\* the task with this ID is stored
Stored(tasks, id) == \E i \in DOMAIN tasks : tasks[i].id = id

\* after is before without its i-th task
Without(before, after, i) ==
  /\ Len(after) = Len(before) - 1
  /\ \A j \in 1..(i - 1) : after[j] = before[j]
  /\ \A j \in (i + 1)..Len(before) : after[j - 1] = before[j]

\* after is before but for the field of the i-th task, which has the value
SetsField(before, after, i, field, value) ==
  /\ Len(after) = Len(before)
  /\ \A j \in DOMAIN before : j # i => after[j] = before[j]
  /\ after[i][field] = value
  /\ \A f \in DOMAIN before[i] : f # field => after[i][f] = before[i][f]

\* C30: the todo store's frame. remove with the ID of a stored task deletes
\* that task and keeps the others in their order; remove, priority, status
\* and progress with an unknown ID leave the tasks as they are and answer
\* 'Task not found'; priority, status and progress with a known ID change
\* that one field of that one task.
C30_TodoFrame ==
  /\ (IsTodo("remove") /\ Stored(pre, call.id)) =>
        /\ ~Stored(doc, call.id)
        /\ \E i \in DOMAIN pre :
              pre[i].id = call.id /\ Without(pre, doc, i)
  /\ \A op \in {"remove", "priority", "status", "progress"} :
        (IsTodo(op) /\ ~Stored(pre, call.id)) =>
           doc = pre /\ ret.text = "Task not found"
  /\ \A op \in {"priority", "status", "progress"} :
        (IsTodo(op) /\ Stored(pre, call.id)) =>
           \E i \in DOMAIN pre :
              /\ pre[i].id = call.id
              /\ SetsField(pre, doc, i, op, call[op])
              /\ ret.text # "Task not found"

\* the second of three tasks is removed
C30_Witness ==
  /\ IsTodo("remove")
  /\ Len(pre) = 3
  /\ pre[2].id = call.id
  /\ Len(doc) = 2

====
